---------------------------- MODULE Spec2Model ----------------------------
(***************************************************************************)
(* joi-ful-routes: the Joi-schema to OpenAPI compiler (lib/joi-to-swagger)  *)
(* and the document assembler (lib/schema-to-swagger) with its reference    *)
(* resolver, as state machines.                                             *)
(*                                                                          *)
(* JavaScript values are tagged tuples:                                     *)
(*   <<"s", text>>  string        <<"n", k>>   number                       *)
(*   <<"b", bool>>  boolean       <<"null">>   null                         *)
(*   <<"undef">>    undefined     <<"fn">>     a function value             *)
(*   <<"o", pairs>> an object owned by its holder; pairs is the sequence of *)
(*                  <<key, value>> in insertion order                       *)
(*   <<"a", elems>> an array                                                *)
(*   <<"p", id>>    a reference to the caller's object literal id, whose    *)
(*                  content lives in the heap (metadata.swagger literals    *)
(*                  are shared by reference between nodes and outputs)      *)
(***************************************************************************)
EXTENDS Integers, Sequences, FiniteSets, TLC

VARIABLES
  heap,                 \* literal id -> pairs: the caller's metadata.swagger literals
  declared,             \* components.schemas of the schema class: <<key, node id>> in key order
  declaredParams,       \* components.parameters of the schema class: <<refName, node>>
  pc,                   \* where the build is: "register", "resolve", "failed" (an exception
                        \* ended it); "compile"/"compiled" and "paths"/"done" in the other
                        \* specifications
  regIdx,               \* declared schemas registered so far
  schemas,              \* swaggerComponents.schemas: pairs <<name, compiled schema>>
  parameters,           \* swaggerComponents.parameters: pairs <<refName, parameter>>
  schemaMap,            \* Map node id -> component name (byIdentity)
  convertedSchemasMap,  \* Map JSON string -> component name (byShape)
  calls,                \* resolver calls made
  last,                 \* history: the last operation and its outcome
  strAt,                \* history: node id -> the string it compiled to when it was bound
  returned,             \* history: node id -> the name the resolver last returned for it
  cnode,                \* the node handed to parse (specification SpecCompile)
  cout,                 \* the outcome of that parse
  klass,                \* the route definitions of the schema class (specification SpecPaths)
  pathIdx,              \* paths of the schema class built so far
  doc,                  \* swaggerPaths: the paths of the assembled document
  routeSchema,          \* the schema validateRequest was given (specification SpecValidate)
  req,                  \* the Express request
  res,                  \* the response sent: status and JSON body, status 0 when none
  nextCalls             \* the calls of next made, each with its argument

vars == <<heap, declared, declaredParams, pc, regIdx, schemas, parameters, schemaMap,
          convertedSchemasMap, calls, last, strAt, returned, cnode, cout, klass, pathIdx,
          doc, routeSchema, req, res, nextCalls>>

\* the variables of the request validation
http == <<routeSchema, req, res, nextCalls>>

\* no request is being validated
NoRequest == routeSchema = <<>> /\ req = <<>> /\ res = <<>> /\ nextCalls = <<>>

(***************************************************************************)
(* JavaScript values                                                        *)
(***************************************************************************)
S(x) == <<"s", x>>
N(k) == <<"n", k>>
B(b) == <<"b", b>>
O(pairs) == <<"o", pairs>>
A(elems) == <<"a", elems>>
P(id) == <<"p", id>>
Null == <<"null">>
Undef == <<"undef">>
Fn == <<"fn">>

Tag(v) == v[1]

\* JavaScript truthiness of a value
Truthy(v) ==
  CASE Tag(v) = "s" -> v[2] # ""
    [] Tag(v) = "n" -> v[2] # 0
    [] Tag(v) = "b" -> v[2]
    [] Tag(v) = "null" -> FALSE
    [] Tag(v) = "undef" -> FALSE
    [] OTHER -> TRUE

\* ---- ordered key/value pairs: the own enumerable properties of an object
HasKey(pairs, k) == \E i \in 1..Len(pairs) : pairs[i][1] = k

KeyIdx(pairs, k) == CHOOSE i \in 1..Len(pairs) : pairs[i][1] = k

\* obj[k], undefined when absent
GetKey(pairs, k) == IF HasKey(pairs, k) THEN pairs[KeyIdx(pairs, k)][2] ELSE Undef

\* obj[k] = v : an existing key keeps its place, a new key goes last
SetKey(pairs, k, v) ==
  IF HasKey(pairs, k)
  THEN [i \in 1..Len(pairs) |-> IF pairs[i][1] = k THEN <<k, v>> ELSE pairs[i]]
  ELSE Append(pairs, <<k, v>>)

\* delete obj[k]
DelKey(pairs, k) == SelectSeq(pairs, LAMBDA pr : pr[1] # k)

\* Object.keys(obj)
Keys(pairs) == [i \in 1..Len(pairs) |-> pairs[i][1]]

KeySet(pairs) == {pairs[i][1] : i \in 1..Len(pairs)}

RECURSIVE AssignAll(_, _)
\* Object.assign(target, src) on the pairs of both
AssignAll(target, src) ==
  IF src = <<>> THEN target
  ELSE AssignAll(SetKey(target, src[1][1], src[1][2]), Tail(src))

\* the own properties of an object value, through the heap for a shared literal
Props(v, h) ==
  CASE Tag(v) = "o" -> v[2]
    [] Tag(v) = "p" -> h[v[2]]
    [] OTHER -> <<>>

IsObj(v) == Tag(v) \in {"o", "p"}

RECURSIVE Deref(_, _)
\* the value with every shared literal replaced by its present content
Deref(v, h) ==
  CASE Tag(v) = "o" ->
         O([i \in 1..Len(v[2]) |-> <<v[2][i][1], Deref(v[2][i][2], h)>>])
    [] Tag(v) = "p" ->
         O([i \in 1..Len(h[v[2]]) |-> <<h[v[2]][i][1], Deref(h[v[2]][i][2], h)>>])
    [] Tag(v) = "a" -> A([i \in 1..Len(v[2]) |-> Deref(v[2][i], h)])
    [] OTHER -> v

RECURSIVE JoinStr(_, _)
JoinStr(strs, sep) ==
  IF strs = <<>> THEN ""
  ELSE IF Len(strs) = 1 THEN strs[1]
  ELSE strs[1] \o sep \o JoinStr(Tail(strs), sep)

RECURSIVE Json(_)
\* JSON.stringify of a dereferenced value that is not undefined
Json(v) ==
  CASE Tag(v) = "s" -> "\"" \o v[2] \o "\""
    [] Tag(v) = "n" -> ToString(v[2])
    [] Tag(v) = "b" -> IF v[2] THEN "true" ELSE "false"
    [] Tag(v) = "null" -> "null"
    [] Tag(v) = "o" ->
         LET kept == SelectSeq(v[2], LAMBDA pr : Tag(pr[2]) \notin {"undef", "fn"})
         IN "{" \o JoinStr([i \in 1..Len(kept) |->
                             "\"" \o kept[i][1] \o "\":" \o Json(kept[i][2])], ",") \o "}"
    [] Tag(v) = "a" ->
         "[" \o JoinStr([i \in 1..Len(v[2]) |->
                          IF Tag(v[2][i]) \in {"undef", "fn"} THEN "null"
                          ELSE Json(v[2][i])], ",") \o "]"
    [] OTHER -> "null"

\* JSON.stringify(v): undefined for undefined (written "undefined", which is no JSON text)
Stringify(v, h) ==
  IF Tag(v) \in {"undef", "fn"} THEN "undefined" ELSE Json(Deref(v, h))

RECURSIVE DeepEq(_, _)
\* lodash isEqual on dereferenced values: objects by key set, arrays by position
DeepEq(a, b) ==
  IF Tag(a) # Tag(b) THEN FALSE
  ELSE CASE Tag(a) = "o" ->
              /\ KeySet(a[2]) = KeySet(b[2])
              /\ \A i \in 1..Len(a[2]) : DeepEq(a[2][i][2], GetKey(b[2], a[2][i][1]))
         [] Tag(a) = "a" ->
              /\ Len(a[2]) = Len(b[2])
              /\ \A i \in 1..Len(a[2]) : DeepEq(a[2][i], b[2][i])
         [] OTHER -> a = b

IsEqual(a, b, h) == DeepEq(Deref(a, h), Deref(b, h))


RECURSIVE MergePairs(_, _)
RECURSIVE MergeVal(_, _)
\* lodash merge of one source value sv (dereferenced) over the destination value tv
MergeVal(tv, sv) ==
  CASE Tag(sv) = "o" ->
         O(MergePairs(IF Tag(tv) = "o" THEN tv[2] ELSE <<>>, sv[2]))
    [] Tag(sv) = "a" ->
         LET base == IF Tag(tv) = "a" THEN tv[2] ELSE <<>>
             n == IF Len(base) > Len(sv[2]) THEN Len(base) ELSE Len(sv[2])
         IN A([i \in 1..n |->
                 IF i > Len(sv[2]) THEN base[i]
                 ELSE MergeVal(IF i <= Len(base) THEN base[i] ELSE Undef, sv[2][i])])
    [] Tag(sv) = "undef" -> tv
    [] OTHER -> sv

\* lodash merge(target, src): recursive, plain objects and arrays of src are merged
\* into (copies owned by) the target, other defined values replace
MergePairs(target, src) ==
  IF src = <<>> THEN target
  ELSE LET k == src[1][1]
           merged == MergeVal(GetKey(target, k), src[1][2])
       IN MergePairs(IF Tag(merged) = "undef" /\ HasKey(target, k) THEN target
                     ELSE SetKey(target, k, merged),
                     Tail(src))

\* merge(target, src) where src may hold references to shared literals
Merge(target, src, h) == MergePairs(target, Deref(O(src), h)[2])

(***************************************************************************)
(* Joi schema nodes.  A node is a record of the Joi internals the compiler  *)
(* reads: type, _rules, _flags.*, _preferences.convert, _valids, _invalids, *)
(* $_terms.{keys, patterns, items, matches, whens, examples} and the        *)
(* flattened $_terms.metas.  An optional sub-node is <<>> or <<node>>; an   *)
(* absent list term (null in Joi) is <<>>.                                  *)
(***************************************************************************)
AnyNode ==
  [type |-> "any", rules |-> <<>>,
   presence |-> "", label |-> "", description |-> "", default |-> Undef,
   encoding |-> "", format |-> "", unknown |-> FALSE, match |-> "", only |-> FALSE,
   convert |-> TRUE,
   valids |-> <<>>, invalids |-> <<>>,
   keys |-> <<>>, patterns |-> <<>>, items |-> <<>>, matches |-> <<>>,
   whens |-> <<>>, examples |-> <<>>,
   className |-> "", classTarget |-> "", swagger |-> <<>>, swaggerOverride |-> FALSE,
   schemaOverride |-> <<>>, refValues |-> <<>>, swaggerType |-> "", baseType |-> ""]

Typed(t) == [AnyNode EXCEPT !.type = t]
Rule(name, arg) == [name |-> name, arg |-> arg]
Child(key, node) == [key |-> key, schema |-> node]
\* one entry of $_terms.whens or $_terms.matches
Cond(isRef, th, ow, sw, sch) ==
  [ref |-> isRef, then |-> th, otherwise |-> ow, switch |-> sw, schema |-> sch]

\* lodash find(schema._rules, {name}): the first rule of that name
HasRule(schema, name) == \E i \in 1..Len(schema.rules) : schema.rules[i].name = name

FindRule(schema, name) ==
  schema.rules[CHOOSE i \in 1..Len(schema.rules) :
                 /\ schema.rules[i].name = name
                 /\ \A j \in 1..(i - 1) : schema.rules[j].name # name]

\* patterns: the fixed string patterns
patterns(name) ==
  CASE name = "alphanum" -> "^[a-zA-Z0-9]*$"
    [] name = "alphanumLower" -> "^[a-z0-9]*$"
    [] name = "alphanumUpper" -> "^[A-Z0-9]*$"
    [] name = "token" -> "^[a-zA-Z0-9_]*$"

refDef(type, name) == O(<< <<"$ref", S("#/components/" \o type \o "/" \o name)>> >>)

RECURSIVE getMinMaxFrom(_, _, _)
getMinMaxFrom(rules, suffix, swagger) ==
  IF rules = <<>> THEN swagger
  ELSE LET rule == rules[1]
           s1 == IF rule.name = "min" THEN SetKey(swagger, "min" \o suffix, rule.arg)
                 ELSE swagger
           s2 == IF rule.name = "max" THEN SetKey(s1, "max" \o suffix, rule.arg)
                 ELSE s1
           s3 == IF rule.name = "length"
                 THEN SetKey(SetKey(s2, "min" \o suffix, rule.arg),
                             "max" \o suffix, rule.arg)
                 ELSE s2
       IN getMinMaxFrom(Tail(rules), suffix, s3)

getMinMax(schema, suffix) == getMinMaxFrom(schema.rules, suffix, <<>>)

getCaseSuffix(schema) ==
  IF HasRule(schema, "case") /\ FindRule(schema, "case").arg = S("lower") THEN "Lower"
  ELSE IF HasRule(schema, "case") /\ FindRule(schema, "case").arg = S("upper") THEN "Upper"
  ELSE ""

\* the filters handed to parseValidsAndInvalids
IsOfKind(v, kinds) == Tag(v) \in kinds

parseValidsAndInvalids(schema, kinds) ==
  LET valids == SelectSeq(schema.valids, LAMBDA v : IsOfKind(v, kinds))
      invalids == SelectSeq(schema.invalids, LAMBDA v : IsOfKind(v, kinds))
      s1 == IF schema.valids # <<>> /\ schema.only /\ Len(valids) > 0
            THEN << <<"enum", A(valids)>> >> ELSE <<>>
  IN IF schema.invalids # <<>> /\ Len(invalids) > 0
     THEN Append(s1, <<"not", O(<< <<"enum", A(invalids)>> >>)>>)
     ELSE s1

\* a limit that is a Joi reference is <<"ref", key>>
isRef(v) == Tag(v) = "ref"

getRefValue(ref, schema, fallback) ==
  IF Truthy(GetKey(schema.refValues, ref[2])) THEN GetKey(schema.refValues, ref[2])
  ELSE fallback

\* regex.toString().slice(1, -1) of a regular expression <<"re", source, flags>>,
\* flags a sequence of one-letter strings
RegexSlice(re) ==
  IF re[3] = <<>> THEN re[2]
  ELSE re[2] \o "/" \o JoinStr(SubSeq(re[3], 1, Len(re[3]) - 1), "")


(***************************************************************************)
(* parseAsType: the scalar extractors                                       *)
(***************************************************************************)
\* the number extractor with the sign rule read after the min and max rules
parseNumber_SignAfterLimits(schema) ==
  LET s0 == IF HasRule(schema, "integer") THEN << <<"type", S("integer")>> >>
            ELSE IF HasRule(schema, "precision")
                 THEN << <<"type", S("number")>>, <<"format", S("double")>> >>
                 ELSE << <<"type", S("number")>>, <<"format", S("float")>> >>
      s1 == IF HasRule(schema, "min")
            THEN SetKey(s0, "minimum", FindRule(schema, "min").arg) ELSE s0
      s2 == IF HasRule(schema, "max")
            THEN SetKey(s1, "maximum", FindRule(schema, "max").arg) ELSE s1
      s3 == IF HasRule(schema, "sign")
            THEN IF FindRule(schema, "sign").arg = S("positive")
                 THEN SetKey(s2, "minimum", N(1))
                 ELSE SetKey(s2, "maximum", N(-1))
            ELSE s2
  IN AssignAll(s3, parseValidsAndInvalids(schema, {"n"}))

parseNumber(schema) ==
  LET s0 == IF HasRule(schema, "integer") THEN << <<"type", S("integer")>> >>
            ELSE IF HasRule(schema, "precision")
                 THEN << <<"type", S("number")>>, <<"format", S("double")>> >>
                 ELSE << <<"type", S("number")>>, <<"format", S("float")>> >>
      s1 == IF HasRule(schema, "sign")
            THEN IF FindRule(schema, "sign").arg = S("positive")
                 THEN SetKey(s0, "minimum", N(1))
                 ELSE IF FindRule(schema, "sign").arg = S("negative")
                      THEN SetKey(s0, "maximum", N(-1))
                      ELSE s0
            ELSE s0
      s2 == IF HasRule(schema, "min")
            THEN LET limit == FindRule(schema, "min").arg
                 IN SetKey(s1, "minimum",
                           IF isRef(limit) THEN getRefValue(limit, schema, N(0)) ELSE limit)
            ELSE s1
      s3 == IF HasRule(schema, "max")
            THEN LET limit == FindRule(schema, "max").arg
                 IN SetKey(s2, "maximum",
                           IF isRef(limit) THEN getRefValue(limit, schema, N(0)) ELSE limit)
            ELSE s2
  IN AssignAll(s3, parseValidsAndInvalids(schema, {"n"}))

parseString(schema) ==
  LET s0 == << <<"type", S("string")>> >>
      s1 == IF HasRule(schema, "alphanum")
            THEN LET strict == schema.convert = FALSE
                 IN SetKey(s0, "pattern",
                           S(patterns("alphanum" \o
                                      (IF strict THEN getCaseSuffix(schema) ELSE ""))))
            ELSE s0
      s2 == IF HasRule(schema, "token") THEN SetKey(s1, "pattern", S(patterns("token")))
            ELSE s1
      s3 == IF HasRule(schema, "email")
            THEN DelKey(SetKey(s2, "format", S("email")), "pattern") ELSE s2
      s4 == IF HasRule(schema, "isoDate")
            THEN DelKey(SetKey(s3, "format", S("date-time")), "pattern") ELSE s3
      s5 == IF HasRule(schema, "guid")
            THEN DelKey(SetKey(s4, "format", S("uuid")), "pattern") ELSE s4
      s6 == IF HasRule(schema, "pattern")
            THEN SetKey(s5, "pattern", S(RegexSlice(FindRule(schema, "pattern").arg)))
            ELSE s5
      s7 == AssignAll(s6, getMinMax(schema, "Length"))
  IN AssignAll(s7, parseValidsAndInvalids(schema, {"s"}))

parseBinary(schema) ==
  LET s0 == << <<"type", S("string")>>,
               <<"format", S(IF schema.encoding = "base64" THEN "byte" ELSE "binary")>> >>
  IN AssignAll(s0, getMinMax(schema, "Length"))

parseDate(schema) ==
  << <<"type", S("string")>>,
     <<"format", S(IF schema.format = "YYYY-MM-DD" THEN "date" ELSE "date-time")>> >>

parseBoolean(schema) == << <<"type", S("boolean")>> >>

parseAny(schema) ==
  LET s0 == IF schema.swaggerType = "file"
            THEN << <<"type", S("file")>>, <<"in", S("formData")>> >> ELSE <<>>
  IN AssignAll(s0, parseValidsAndInvalids(schema, {"s", "n"}))

\* the keys of parseAsType
RecognizedTypes ==
  {"number", "string", "binary", "date", "boolean", "alternatives", "array", "object", "any"}


(***************************************************************************)
(* parse and the composite extractors.  A call's outcome is a record:       *)
(*   kind "ok"    : {swagger, components} returned                          *)
(*   kind "false" : false returned (a forbidden node)                       *)
(*   kind "throw" : an exception, err names it                              *)
(* h is the heap when the call ends (what it wrote to shared literals stays *)
(* written when it throws).                                                 *)
(***************************************************************************)
\* const v = ...: the rest of the function with v bound to the value
With(v, Rest(_)) == Rest(v)

Ok(swagger, components, h) ==
  [kind |-> "ok", swagger |-> swagger, components |-> components, h |-> h, err |-> ""]
RetFalse(h) ==
  [kind |-> "false", swagger |-> Undef, components |-> <<>>, h |-> h, err |-> ""]
\* an exception turned into the sentinel false
Throw_ReturnsFalse(err, h) == RetFalse(h)

\* an exception raised with the message of the absent schema
Throw_NoSchema(err, h) ==
  [kind |-> "throw", swagger |-> Undef, components |-> <<>>, h |-> h,
   err |-> "No schema was passed."]

Throw(err, h) ==
  [kind |-> "throw", swagger |-> Undef, components |-> <<>>, h |-> h, err |-> err]

ErrNoSchema == "No schema was passed."
ErrNestedOverride == "Cannot override the schema for one which is being used in another override (no nested schema overrides)."
ErrUnrecognized == "is not a recognized Joi type."

\* lodash get(components, [type, name])
GetPath(components, type, name) == GetKey(Props(GetKey(components, type), <<>>), name)

\* lodash set(components, [type, name], swagger)
SetPath(components, type, name, swagger) ==
  LET inner == IF Tag(GetKey(components, type)) = "o" THEN GetKey(components, type)[2]
               ELSE <<>>
  IN SetKey(components, type, O(SetKey(inner, name, swagger)))

\* swagger[key] = value, on an owned object or through the heap on a shared literal
SetProp(swagger, key, value, h) ==
  IF Tag(swagger) = "p"
  THEN [swagger |-> swagger, h |-> [h EXCEPT ![swagger[2]] = SetKey(@, key, value)]]
  ELSE [swagger |-> O(SetKey(swagger[2], key, value)), h |-> h]

\* delete swagger[key]
DelProp(swagger, key, h) ==
  IF Tag(swagger) = "p"
  THEN [swagger |-> swagger, h |-> [h EXCEPT ![swagger[2]] = DelKey(@, key)]]
  ELSE [swagger |-> O(DelKey(swagger[2], key)), h |-> h]

RECURSIVE uniqWith(_, _)
\* uniqWith left out: every element is kept
uniqWith_KeepAll(swaggers, h) == swaggers

\* lodash uniqWith(swaggers, isEqual): first occurrences, in order
uniqWith(swaggers, h) ==
  IF swaggers = <<>> THEN <<>>
  ELSE LET init == uniqWith(SubSeq(swaggers, 1, Len(swaggers) - 1), h)
           x == swaggers[Len(swaggers)]
       IN IF \E i \in 1..Len(init) : IsEqual(init[i], x, h) THEN init
          ELSE Append(init, x)

\* the branches a list of when/match entries contributes, in order
RECURSIVE SwitchBranches(_)
SwitchBranches(sw) ==
  IF sw = <<>> THEN <<>>
  ELSE sw[1].then \o sw[1].otherwise \o SwitchBranches(Tail(sw))

RECURSIVE WhenBranches(_)
WhenBranches(whens) ==
  IF whens = <<>> THEN <<>>
  ELSE whens[1].then \o whens[1].otherwise \o SwitchBranches(whens[1].switch)
       \o WhenBranches(Tail(whens))

RECURSIVE MatchBranches(_)
MatchBranches(matches) ==
  IF matches = <<>> THEN <<>>
  ELSE (IF matches[1].ref
        THEN matches[1].then \o matches[1].otherwise \o SwitchBranches(matches[1].switch)
        ELSE matches[1].schema)
       \o MatchBranches(Tail(matches))

RECURSIVE parse(_, _, _, _)
RECURSIVE AltLoop(_, _, _, _, _, _)
RECURSIVE KeysLoop(_, _, _, _, _, _)
RECURSIVE PatternsLoop(_, _, _, _, _)

\* the loop of schemaForAlternatives and of the array extractor over the alternatives:
\* swaggers collected so far, newComponentsByRef (newc), the heap; markRequired is the
\* x-required step, which only schemaForAlternatives has
AltLoop(alternatives, existingComponents, newc, swaggers, markRequired, h) ==
  IF alternatives = <<>>
  THEN [kind |-> "ok", swaggers |-> swaggers, newc |-> newc, h |-> h, err |-> ""]
  ELSE LET joiSchema == alternatives[1]
       IN With(parse(joiSchema, Merge(Merge(<<>>, existingComponents, h), newc, h),
                     FALSE, h),
          LAMBDA r :
          IF r.kind = "throw"
          THEN [kind |-> "throw", swaggers |-> swaggers, newc |-> newc, h |-> r.h,
                err |-> r.err]
          ELSE IF r.kind = "false"
          THEN AltLoop(Tail(alternatives), existingComponents, newc, swaggers,
                       markRequired, r.h)
          ELSE LET m == IF markRequired /\ joiSchema.presence = "required"
                        THEN SetProp(r.swagger, "x-required", B(TRUE), r.h)
                        ELSE [swagger |-> r.swagger, h |-> r.h]
               IN AltLoop(Tail(alternatives), existingComponents,
                          Merge(newc, r.components, m.h),
                          Append(swaggers, m.swagger), markRequired, m.h))

\* schemaForAlternatives without the test swaggers.length > 0
schemaForAlternatives_EmptyList(alternatives, existingComponents, newComponentsByRef, mode, h) ==
  With(AltLoop(alternatives, existingComponents, newComponentsByRef, <<>>, TRUE, h),
  LAMBDA l :
  IF l.kind = "throw" THEN Throw(l.err, l.h)
  ELSE Ok(O(<< <<mode, A(uniqWith(l.swaggers, l.h))>> >>), l.newc, l.h))

schemaForAlternatives(alternatives, existingComponents, newComponentsByRef, mode, h) ==
  With(AltLoop(alternatives, existingComponents, newComponentsByRef, <<>>, TRUE, h),
  LAMBDA l :
  LET swaggers == uniqWith(l.swaggers, l.h)
  IN IF l.kind = "throw" THEN Throw(l.err, l.h)
     ELSE Ok(IF Len(swaggers) > 0 THEN O(<< <<mode, A(swaggers)>> >>) ELSE O(<<>>),
             l.newc, l.h))

\* parseWhens with the combinator fixed to oneOf
parseWhens_AlwaysOneOf(schema, existingComponents, newComponentsByRef, h) ==
  schemaForAlternatives(WhenBranches(schema.whens), existingComponents,
                        newComponentsByRef, "oneOf", h)

parseWhens(schema, existingComponents, newComponentsByRef, h) ==
  schemaForAlternatives(WhenBranches(schema.whens), existingComponents,
                        newComponentsByRef,
                        IF Len(schema.whens) > 1 THEN "anyOf" ELSE "oneOf", h)

parseAlternatives(schema, existingComponents, newComponentsByRef, h) ==
  schemaForAlternatives(MatchBranches(schema.matches), existingComponents,
                        newComponentsByRef,
                        (IF schema.match # "" THEN schema.match ELSE "any") \o "Of", h)

parseArray(schema, existingComponents, newComponentsByRef, h) ==
  With(AltLoop(schema.items, existingComponents, newComponentsByRef, <<>>, FALSE, h),
  LAMBDA l :
  LET swaggers == uniqWith(l.swaggers, l.h)
      items == IF Len(swaggers) <= 1
               THEN (IF Len(swaggers) = 1 THEN swaggers[1] ELSE O(<<>>))
               ELSE O(<< <<"oneOf", A(swaggers)>> >>)
      o1 == AssignAll(<< <<"type", S("array")>>, <<"items", items>> >>,
                      getMinMax(schema, "Items"))
      o2 == IF HasRule(schema, "unique") THEN SetKey(o1, "uniqueItems", B(TRUE)) ELSE o1
  IN IF l.kind = "throw" THEN Throw(l.err, l.h) ELSE Ok(O(o2), l.newc, l.h))

\* children.forEach with requireds.unshift(key) in place of requireds.push(key)
KeysLoop_RequiredFirst(children, acc, newc, combined, requireds, h) ==
  IF children = <<>>
  THEN [kind |-> "ok", properties |-> acc, newc |-> newc, combined |-> combined,
        requireds |-> requireds, h |-> h, err |-> ""]
  ELSE LET child == children[1]
       IN With(parse(child.schema, combined, FALSE, h),
          LAMBDA r :
          IF r.kind = "throw"
          THEN [kind |-> "throw", properties |-> acc, newc |-> newc,
                combined |-> combined, requireds |-> requireds, h |-> r.h, err |-> r.err]
          ELSE IF r.kind = "false"
          THEN KeysLoop(Tail(children), acc, newc, combined, requireds, r.h)
          ELSE KeysLoop(Tail(children),
                        SetKey(acc, child.key, r.swagger),
                        Merge(newc, r.components, r.h),
                        Merge(combined, r.components, r.h),
                        IF child.schema.presence = "required"
                        THEN << S(child.key) >> \o requireds ELSE requireds,
                        r.h))

\* children.forEach of the object extractor
KeysLoop(children, acc, newc, combined, requireds, h) ==
  IF children = <<>>
  THEN [kind |-> "ok", properties |-> acc, newc |-> newc, combined |-> combined,
        requireds |-> requireds, h |-> h, err |-> ""]
  ELSE LET child == children[1]
       IN With(parse(child.schema, combined, FALSE, h),
          LAMBDA r :
          IF r.kind = "throw"
          THEN [kind |-> "throw", properties |-> acc, newc |-> newc,
                combined |-> combined, requireds |-> requireds, h |-> r.h, err |-> r.err]
          ELSE IF r.kind = "false"
          THEN KeysLoop(Tail(children), acc, newc, combined, requireds, r.h)
          ELSE KeysLoop(Tail(children),
                        SetKey(acc, child.key, r.swagger),
                        Merge(newc, r.components, r.h),
                        Merge(combined, r.components, r.h),
                        IF child.schema.presence = "required"
                        THEN Append(requireds, S(child.key)) ELSE requireds,
                        r.h))

\* keyPatterns.forEach of the object extractor; each pattern is <<>> (no rule) or <<rule>>
PatternsLoop(keyPatterns, additionalProperties, newc, combined, h) ==
  IF keyPatterns = <<>>
  THEN [kind |-> "ok", additionalProperties |-> additionalProperties, newc |-> newc,
        h |-> h, err |-> ""]
  ELSE IF keyPatterns[1] = <<>>
  THEN PatternsLoop(Tail(keyPatterns), additionalProperties, newc, combined, h)
  ELSE With(parse(keyPatterns[1][1], combined, FALSE, h),
       LAMBDA r :
          IF r.kind = "throw"
          THEN [kind |-> "throw", additionalProperties |-> additionalProperties,
                newc |-> newc, h |-> r.h, err |-> r.err]
          ELSE IF r.kind = "false"
          THEN PatternsLoop(Tail(keyPatterns), additionalProperties, newc, combined, r.h)
          ELSE PatternsLoop(Tail(keyPatterns), r.swagger,
                            Merge(newc, r.components, r.h),
                            Merge(combined, r.components, r.h), r.h))

parseObject(schema, existingComponents, newComponentsByRef, h) ==
  LET combinedComponents == Merge(Merge(<<>>, existingComponents, h), newComponentsByRef, h)
  IN
  With(KeysLoop(schema.keys, <<>>, newComponentsByRef, combinedComponents, <<>>, h),
  LAMBDA k :
  With(IF k.kind = "ok" /\ Len(schema.keys) = 0
       THEN PatternsLoop(schema.patterns, O(<<>>), k.newc, k.combined, k.h)
       ELSE [kind |-> k.kind, additionalProperties |-> O(<<>>), newc |-> k.newc,
             h |-> k.h, err |-> k.err],
  LAMBDA pl :
  LET s0 == << <<"type", S("object")>>, <<"properties", O(k.properties)>> >>
      s1 == IF Len(k.requireds) > 0 THEN SetKey(s0, "required", A(k.requireds)) ELSE s0
      s2 == IF schema.unknown # TRUE THEN SetKey(s1, "additionalProperties", B(FALSE))
            ELSE s1
      s3 == IF Len(Props(pl.additionalProperties, pl.h)) # 0
            THEN SetKey(s2, "additionalProperties", pl.additionalProperties) ELSE s2
  IN IF pl.kind = "throw" THEN Throw(pl.err, pl.h) ELSE Ok(O(s3), pl.newc, pl.h)))

\* parseAsType[type](schema, existingComponents, components)
parseAsType(type, schema, existingComponents, components, h) ==
  CASE type = "number" -> Ok(O(parseNumber(schema)), components, h)
    [] type = "string" -> Ok(O(parseString(schema)), components, h)
    [] type = "binary" -> Ok(O(parseBinary(schema)), components, h)
    [] type = "date" -> Ok(O(parseDate(schema)), components, h)
    [] type = "boolean" -> Ok(O(parseBoolean(schema)), components, h)
    [] type = "any" -> Ok(O(parseAny(schema)), components, h)
    [] type = "alternatives" -> parseAlternatives(schema, existingComponents, components, h)
    [] type = "array" -> parseArray(schema, existingComponents, components, h)
    [] type = "object" -> parseObject(schema, existingComponents, components, h)

\* getReturnValue of parse
getReturnValue(schema, swagger, components, h) ==
  LET metaDefName == schema.className
      metaDefType == IF schema.classTarget # "" THEN schema.classTarget ELSE "schemas"
  IN IF metaDefName # ""
     THEN Ok(refDef(metaDefType, metaDefName),
             SetPath(components, metaDefType, metaDefName, swagger), h)
     ELSE Ok(swagger, components, h)

\* the decoration of the compiled schema at the end of parse: nullable, description,
\* example(s), title, default and the merged swagger literal
Decorate(schema, swagger, h) ==
  LET s1 == IF \E i \in 1..Len(schema.valids) : schema.valids[i] = Null
            THEN SetKey(swagger, "nullable", B(TRUE)) ELSE swagger
      s2 == IF schema.description # "" THEN SetKey(s1, "description", S(schema.description))
            ELSE s1
      s3 == IF schema.examples # <<>>
            THEN IF Len(schema.examples) = 1
                 THEN SetKey(s2, "example", schema.examples[1])
                 ELSE SetKey(s2, "examples", A(schema.examples))
            ELSE s2
      s4 == IF schema.label # "" THEN SetKey(s3, "title", S(schema.label)) ELSE s3
      s5 == IF (Truthy(schema.default) \/ Tag(schema.default) = "b")
               /\ Tag(schema.default) # "fn"
            THEN SetKey(s4, "default", schema.default) ELSE s4
  IN IF schema.swagger # <<>> THEN AssignAll(s5, h[schema.swagger[1]]) ELSE s5

parse(schema, existingComponents, isSchemaOverride, h) ==
  IF schema.schemaOverride # <<>>
  THEN IF isSchemaOverride THEN Throw(ErrNestedOverride, h)
       ELSE parse(schema.schemaOverride[1], existingComponents, TRUE, h)
  ELSE
  LET metaDefName == schema.className
      metaDefType == IF schema.classTarget # "" THEN schema.classTarget ELSE "schemas"
      type == IF schema.baseType # "" THEN schema.baseType ELSE schema.type
  IN IF schema.swagger # <<>> /\ schema.swaggerOverride
     THEN getReturnValue(schema, P(schema.swagger[1]), <<>>, h)
     ELSE IF metaDefName # "" /\ Truthy(GetPath(existingComponents, metaDefType, metaDefName))
     THEN Ok(refDef(metaDefType, metaDefName), <<>>, h)
     ELSE IF schema.presence = "forbidden" THEN RetFalse(h)
     ELSE IF type \notin RecognizedTypes THEN Throw(type \o " " \o ErrUnrecognized, h)
     ELSE With(parseAsType(type, schema, existingComponents, <<>>, h),
          LAMBDA t :
          With(IF t.kind = "ok" /\ schema.whens # <<>>
               THEN parseWhens(schema, existingComponents, t.components, t.h)
               ELSE t,
          LAMBDA w :
             IF t.kind = "throw" THEN t
             ELSE IF w.kind = "throw" THEN w
             ELSE LET swagger == IF schema.whens # <<>>
                                 THEN AssignAll(t.swagger[2], Props(w.swagger, w.h))
                                 ELSE t.swagger[2]
                  IN getReturnValue(schema, O(Decorate(schema, swagger, w.h)),
                                    w.components, w.h)))

\* j2s(joiSchema).swagger as the assembler calls it: undefined when parse returns false
j2s(joiSchema, h) ==
  With(parse(joiSchema, <<>>, FALSE, h),
  LAMBDA r :
     IF r.kind = "false" THEN [kind |-> "ok", swagger |-> Undef, h |-> r.h, err |-> ""]
     ELSE [kind |-> r.kind, swagger |-> r.swagger, h |-> r.h, err |-> r.err])


(***************************************************************************)
(* schema-to-swagger: the reference resolver                                *)
(***************************************************************************)
ErrNoLabel == "Encountered a Joi schema without a label."
ErrLabelConflict == "Joi label is already used for a different schema shape."
ErrTypeError == "TypeError: Cannot read properties of undefined (reading 'title')"

EmptyMap == [x \in {} |-> ""]

\* Map.prototype.set
MapSet(m, k, v) == [x \in DOMAIN m \cup {k} |-> IF x = k THEN v ELSE m[x]]

\* the registry the assembler threads through: swaggerComponents.schemas, the two
\* Maps, and the heap of the caller's literals
Registry(sch, sm, csm, h) == [schemas |-> sch, schemaMap |-> sm, convertedSchemasMap |-> csm, h |-> h]

Returned(name, str, reg) == [kind |-> "ok", name |-> name, str |-> str, err |-> "", reg |-> reg]
Thrown(err, str, reg) == [kind |-> "throw", name |-> "", str |-> str, err |-> err, reg |-> reg]

\* nameByTitle with the conflict branch replacing the stored definition
nameByTitle_Overwrite(id, convertedSchema, str, reg) ==
  IF Tag(convertedSchema) = "undef" THEN Thrown(ErrTypeError, str, reg)
  ELSE
  LET title == GetKey(Props(convertedSchema, reg.h), "title")
      chosenName == IF Tag(title) = "s" THEN title[2] ELSE ""
      d == DelProp(convertedSchema, "title", reg.h)
  IN IF ~Truthy(title) THEN Thrown(ErrNoLabel, str, reg)
     ELSE Returned(chosenName, str,
            [schemas |-> SetKey(reg.schemas, chosenName, d.swagger),
             schemaMap |-> MapSet(reg.schemaMap, id, chosenName),
             convertedSchemasMap |-> MapSet(reg.convertedSchemasMap, str, chosenName),
             h |-> d.h])

\* nameByTitle with a default name for a schema without title
nameByTitle_DefaultName(id, convertedSchema, str, reg) ==
  IF Tag(convertedSchema) = "undef" THEN Thrown(ErrTypeError, str, reg)
  ELSE
  LET title == GetKey(Props(convertedSchema, reg.h), "title")
      chosenName == IF Tag(title) = "s" /\ Truthy(title) THEN title[2] ELSE "Schema"
      d == DelProp(convertedSchema, "title", reg.h)
  IN IF Truthy(GetKey(reg.schemas, chosenName))
     THEN IF Stringify(GetKey(reg.schemas, chosenName), reg.h) = str
          THEN Returned(chosenName, str,
                 [reg EXCEPT !.schemaMap = MapSet(@, id, chosenName),
                             !.convertedSchemasMap = MapSet(@, str, chosenName)])
          ELSE Thrown(ErrLabelConflict, str, reg)
     ELSE Returned(chosenName, str,
            [schemas |-> SetKey(reg.schemas, chosenName, d.swagger),
             schemaMap |-> MapSet(reg.schemaMap, id, chosenName),
             convertedSchemasMap |-> MapSet(reg.convertedSchemasMap, str, chosenName),
             h |-> d.h])

\* nameByTitle that enters a new name in the two Maps without storing its definition
nameByTitle_IndexOnly(id, convertedSchema, str, reg) ==
  IF Tag(convertedSchema) = "undef" THEN Thrown(ErrTypeError, str, reg)
  ELSE
  LET title == GetKey(Props(convertedSchema, reg.h), "title")
      chosenName == IF Tag(title) = "s" THEN title[2] ELSE ""
  IN IF ~Truthy(title) THEN Thrown(ErrNoLabel, str, reg)
     ELSE IF Truthy(GetKey(reg.schemas, chosenName))
             /\ Stringify(GetKey(reg.schemas, chosenName), reg.h) # str
     THEN Thrown(ErrLabelConflict, str, reg)
     ELSE Returned(chosenName, str,
            [reg EXCEPT !.schemaMap = MapSet(@, id, chosenName),
                        !.convertedSchemasMap = MapSet(@, str, chosenName)])

\* the end of getSchemaNameFromObj, for a node that neither index knows: the name is
\* the title of the compiled schema; reg is the registry after the compilation
nameByTitle(id, convertedSchema, str, reg) ==
  IF Tag(convertedSchema) = "undef" THEN Thrown(ErrTypeError, str, reg)
  ELSE
  LET title == GetKey(Props(convertedSchema, reg.h), "title")
      chosenName == IF Tag(title) = "s" THEN title[2] ELSE ""
  IN IF ~Truthy(title) THEN Thrown(ErrNoLabel, str, reg)
     ELSE IF Truthy(GetKey(reg.schemas, chosenName))
     THEN LET existingStr == Stringify(GetKey(reg.schemas, chosenName), reg.h)
          IN IF existingStr = str
             THEN Returned(chosenName, str,
                    [reg EXCEPT !.schemaMap = MapSet(@, id, chosenName),
                                !.convertedSchemasMap = MapSet(@, str, chosenName)])
             ELSE Thrown(ErrLabelConflict, str, reg)
     ELSE LET d == DelProp(convertedSchema, "title", reg.h)
          IN Returned(chosenName, str,
               [schemas |-> SetKey(reg.schemas, chosenName, d.swagger),
                schemaMap |-> MapSet(reg.schemaMap, id, chosenName),
                convertedSchemasMap |-> MapSet(reg.convertedSchemasMap, str, chosenName),
                h |-> d.h])

\* getSchemaNameFromObj without the lookup in schemaMap: every call compiles
getSchemaNameFromObj_Recompile(id, joiSchema, reg) ==
  With(j2s(joiSchema, reg.h),
  LAMBDA c :
  LET str == Stringify(c.swagger, c.h)
      r1 == [reg EXCEPT !.h = c.h]
  IN IF c.kind = "throw" THEN Thrown(c.err, "", r1)
     ELSE IF str \in DOMAIN reg.convertedSchemasMap
     THEN Returned(reg.convertedSchemasMap[str], str,
            [r1 EXCEPT !.schemaMap = MapSet(@, id, reg.convertedSchemasMap[str])])
     ELSE nameByTitle(id, c.swagger, str, r1))

\* getSchemaNameFromObj(joiSchema, schemasObj, schemaMap, convertedSchemasMap) for the
\* node with identity id and internals joiSchema
getSchemaNameFromObj(id, joiSchema, reg) ==
  IF id \in DOMAIN reg.schemaMap
  THEN Returned(reg.schemaMap[id], "", reg)
  ELSE
  With(j2s(joiSchema, reg.h),
  LAMBDA c :
  LET str == Stringify(c.swagger, c.h)
      r1 == [reg EXCEPT !.h = c.h]
  IN IF c.kind = "throw" THEN Thrown(c.err, "", r1)
     ELSE IF str \in DOMAIN reg.convertedSchemasMap
     THEN LET existingName == reg.convertedSchemasMap[str]
          IN Returned(existingName, str,
                      [r1 EXCEPT !.schemaMap = MapSet(@, id, existingName)])
     ELSE nameByTitle(id, c.swagger, str, r1))

\* registerSchema without the entry of convertedSchemasMap
registerSchema_NoShapeIndex(key, id, joiSchema, reg) ==
  With(j2s(joiSchema, reg.h),
  LAMBDA c :
  IF c.kind = "throw" THEN Thrown(c.err, "", [reg EXCEPT !.h = c.h])
  ELSE Returned(key, Stringify(c.swagger, c.h),
         [schemas |-> SetKey(reg.schemas, key, c.swagger),
          schemaMap |-> MapSet(reg.schemaMap, id, key),
          convertedSchemasMap |-> reg.convertedSchemasMap,
          h |-> c.h]))

\* one turn of the first loop of buildSwaggerComponents: the declared schema key
registerSchema(key, id, joiSchema, reg) ==
  With(j2s(joiSchema, reg.h),
  LAMBDA c :
  LET str == Stringify(c.swagger, c.h)
  IN IF c.kind = "throw" THEN Thrown(c.err, "", [reg EXCEPT !.h = c.h])
     ELSE Returned(key, str,
            [schemas |-> SetKey(reg.schemas, key, c.swagger),
             schemaMap |-> MapSet(reg.schemaMap, id, key),
             convertedSchemasMap |-> MapSet(reg.convertedSchemasMap, str, key),
             h |-> c.h]))


\* paramName.startsWith('x-'), over the keys the model's parameter nodes use
StartsWithXDash(paramName) == paramName \in {"x-request-id", "x-api-key"}

RECURSIVE IncludesStr(_, _)
\* Array.prototype.includes for a string
IncludesStr(elems, x) ==
  IF elems = <<>> THEN FALSE
  ELSE elems[1] = S(x) \/ IncludesStr(Tail(elems), x)

RECURSIVE buildParameters_KeepDescription(_, _, _)
\* buildParameters leaving the description inside the parameter's schema
buildParameters_KeepDescription(params, swaggerParameters, h) ==
  IF params = <<>> THEN [kind |-> "ok", parameters |-> swaggerParameters, h |-> h, err |-> ""]
  ELSE
  With(j2s(params[1][2], h),
  LAMBDA c :
  LET refName == params[1][1]
      properties == GetKey(Props(c.swagger, c.h), "properties")
      names == Keys(Props(properties, c.h))
      paramDef == Props(GetKey(Props(properties, c.h), names[1]), c.h)
      required == GetKey(Props(c.swagger, c.h), "required")
      entry == O(<< <<"name", S(names[1])>>,
                    <<"in", S(IF StartsWithXDash(names[1]) THEN "header" ELSE "query")>>,
                    <<"required", B(Tag(required) = "a" /\ IncludesStr(required[2], names[1]))>>,
                    <<"schema", O(paramDef)>>,
                    <<"description", IF Truthy(GetKey(paramDef, "description"))
                                     THEN GetKey(paramDef, "description") ELSE S("")>> >>)
  IN IF c.kind = "throw"
     THEN [kind |-> "throw", parameters |-> swaggerParameters, h |-> c.h, err |-> c.err]
     ELSE IF Tag(c.swagger) = "undef"
     THEN [kind |-> "throw", parameters |-> swaggerParameters, h |-> c.h, err |-> ErrTypeError]
     ELSE IF names = <<>>
     THEN buildParameters_KeepDescription(Tail(params), swaggerParameters, c.h)
     ELSE buildParameters_KeepDescription(Tail(params),
                                          SetKey(swaggerParameters, refName, entry), c.h))

RECURSIVE buildParameters(_, _, _)
\* the second loop of buildSwaggerComponents over components.parameters, pairs of
\* <<refName, node>>: swaggerComponents.parameters and the heap, or the exception
buildParameters(params, swaggerParameters, h) ==
  IF params = <<>> THEN [kind |-> "ok", parameters |-> swaggerParameters, h |-> h, err |-> ""]
  ELSE
  With(j2s(params[1][2], h),
  LAMBDA c :
  LET refName == params[1][1]
      swaggerParam == c.swagger
      properties == GetKey(Props(swaggerParam, c.h), "properties")
      names == Keys(Props(properties, c.h))
      paramName == names[1]
      paramDef == Props(GetKey(Props(properties, c.h), paramName), c.h)
      required == GetKey(Props(swaggerParam, c.h), "required")
      isRequired == Tag(required) = "a" /\ IncludesStr(required[2], paramName)
      paramDescription == IF Truthy(GetKey(paramDef, "description"))
                          THEN GetKey(paramDef, "description") ELSE S("")
      entry == O(<< <<"name", S(paramName)>>,
                    <<"in", S(IF StartsWithXDash(paramName) THEN "header" ELSE "query")>>,
                    <<"required", B(isRequired)>>,
                    <<"schema", O(DelKey(paramDef, "description"))>>,
                    <<"description", paramDescription>> >>)
  IN IF c.kind = "throw"
     THEN [kind |-> "throw", parameters |-> swaggerParameters, h |-> c.h, err |-> c.err]
     ELSE IF Tag(swaggerParam) = "undef"
     THEN [kind |-> "throw", parameters |-> swaggerParameters, h |-> c.h, err |-> ErrTypeError]
     ELSE IF names = <<>> THEN buildParameters(Tail(params), swaggerParameters, c.h)
     ELSE buildParameters(Tail(params), SetKey(swaggerParameters, refName, entry), c.h))


(***************************************************************************)
(* The build of one document: the schema class's declared components are    *)
(* registered up front, then the paths are built, which calls the resolver  *)
(* once per declared content entry of each route, in route order.  The      *)
(* routes are any; so the resolver calls are any sequence of nodes.         *)
(***************************************************************************)
MaxCalls == 3
MaxDeclared == 2

Names == {"Foo", "Bar"}

\* the caller's swagger literals when the build starts
Literals == [x \in {"L1"} |-> << <<"type", S("string")>>, <<"title", S("Bar")>> >>]

ErrorObj(required) ==
  [Typed("object") EXCEPT
     !.keys = << Child("error", [Typed("string") EXCEPT
                                   !.presence = IF required THEN "required" ELSE ""]) >>]

Overridden == [AnyNode EXCEPT !.swagger = <<"L1">>, !.swaggerOverride = TRUE]

\* the Joi schema objects of the caller, by identity
NodeOf(id) ==
  CASE id \in {"e1", "e2"} -> ErrorObj(FALSE)
    [] id \in {"f1", "f2"} -> [ErrorObj(FALSE) EXCEPT !.label = "Foo"]
    [] id = "r1" -> [ErrorObj(TRUE) EXCEPT !.label = "Foo"]
    [] id \in {"v1", "v2"} -> Overridden
    [] id = "a1" ->
         [Typed("alternatives") EXCEPT
            !.matches = << Cond(FALSE, <<>>, <<>>, <<>>,
                                << [Overridden EXCEPT !.presence = "required"] >>) >>,
            !.label = "Bar"]
    [] id = "x1" -> [AnyNode EXCEPT !.presence = "forbidden"]
    [] id = "c1" ->
         [Typed("object") EXCEPT
            !.keys = << Child("owner", [Typed("string") EXCEPT !.className = "Owner"]) >>,
            !.label = "Owned"]

Pool == {"e1", "e2", "f1", "f2", "r1", "v1", "v2", "a1", "x1"}

RequestIdHeader ==
  [Typed("object") EXCEPT
     !.keys = << Child("x-request-id",
                       [Typed("string") EXCEPT
                          !.rules = << Rule("guid", Undef) >>,
                          !.presence = "optional",
                          !.description = "Unique identifier for the HTTP request"]) >>,
     !.unknown = TRUE]

\* the declarations a schema class may make: up to MaxDeclared keys, each any node
Declarations ==
  {d \in UNION {[1..n -> Names \X Pool] : n \in 0..MaxDeclared} :
     \A i, j \in DOMAIN d : i # j => d[i][1] # d[j][1]}

ParamDeclarations == { <<>>, << <<"RequestIdHeader", RequestIdHeader>> >> }

NoOp == [op |-> "init", node |-> "", kind |-> "ok", name |-> "", err |-> "", str |-> "",
         compiled |-> FALSE, added |-> FALSE]

Init ==
  /\ heap = Literals
  /\ declared \in Declarations
  /\ declaredParams \in ParamDeclarations
  /\ pc = "register"
  /\ regIdx = 0
  /\ schemas = <<>>
  /\ parameters = <<>>
  /\ schemaMap = EmptyMap
  /\ convertedSchemasMap = EmptyMap
  /\ calls = 0
  /\ last = NoOp
  /\ strAt = EmptyMap
  /\ returned = EmptyMap
  /\ cnode = AnyNode
  /\ cout = RetFalse(Literals)
  /\ klass = <<>>
  /\ pathIdx = 0
  /\ doc = <<>>
  /\ NoRequest

TheRegistry == Registry(schemas, schemaMap, convertedSchemasMap, heap)

\* the registry after an operation, and what the history keeps of it
Outcome(op, id, r, then) ==
  /\ pc' = IF r.kind = "throw" THEN "failed" ELSE then
  /\ returned' = IF op = "resolve" /\ r.kind = "ok" THEN MapSet(returned, id, r.name)
                 ELSE returned
  /\ heap' = r.reg.h
  /\ schemas' = r.reg.schemas
  /\ schemaMap' = r.reg.schemaMap
  /\ convertedSchemasMap' = r.reg.convertedSchemasMap
  /\ last' = [op |-> op, node |-> id, kind |-> r.kind, name |-> r.name, err |-> r.err,
              str |-> IF r.kind = "ok" /\ r.str = "" THEN strAt[id] ELSE r.str,
              compiled |-> r.str # "",
              added |-> KeySet(r.reg.schemas) # KeySet(schemas)]
  /\ strAt' = IF r.kind = "ok" /\ r.str # "" THEN MapSet(strAt, id, r.str) ELSE strAt

\* swaggerComponents.parameters after the second loop, or the exception that ends the build
ParametersOutcome(r) ==
  /\ heap' = r.h
  /\ parameters' = r.parameters
  /\ pc' = IF r.kind = "throw" THEN "failed" ELSE "resolve"
  /\ last' = [NoOp EXCEPT !.op = "parameters", !.kind = r.kind, !.err = r.err]

\* buildSwaggerComponents, first loop: the next declared schema
RegisterSchema ==
  /\ pc = "register"
  /\ regIdx < Len(declared)
  /\ LET key == declared[regIdx + 1][1]
         id == declared[regIdx + 1][2]
     IN Outcome("register", id, registerSchema(key, id, NodeOf(id), TheRegistry),
                "register")
  /\ regIdx' = regIdx + 1
  /\ UNCHANGED <<declared, declaredParams, parameters, calls, cnode, cout, klass, pathIdx, doc, http>>

\* buildSwaggerComponents, second loop: the declared parameters
RegisterParameters ==
  /\ pc = "register"
  /\ regIdx = Len(declared)
  /\ ParametersOutcome(buildParameters(declaredParams, <<>>, heap))
  /\ UNCHANGED <<declared, declaredParams, regIdx, schemas, schemaMap,
                 convertedSchemasMap, calls, strAt, returned, cnode, cout, klass, pathIdx, doc, http>>

\* buildRequestBody / buildResponses: one content entry's schema is resolved
Resolve(id) ==
  /\ pc = "resolve"
  /\ calls < MaxCalls
  /\ Outcome("resolve", id, getSchemaNameFromObj(id, NodeOf(id), TheRegistry),
             "resolve")
  /\ calls' = calls + 1
  /\ UNCHANGED <<declared, declaredParams, regIdx, parameters, cnode, cout, klass, pathIdx, doc, http>>

Next ==
  \/ RegisterSchema
  \/ RegisterParameters
  \/ \E id \in Pool : Resolve(id)

Spec == Init /\ [][Next]_vars


(***************************************************************************)
(* The compilation of one node: parse applied to a node the caller built.   *)
(* The nodes are number and string nodes with up to MaxRules rules, in any  *)
(* order, one rule per name as Joi keeps them, and object nodes with up to  *)
(* MaxKeys children.                                                        *)
(***************************************************************************)
MaxRules == 3
MaxKeys == 2

\* the rule lists over the rules R: up to n rules, no name twice
RuleSeqs(R, n) ==
  {rs \in UNION {[1..k -> R] : k \in 0..n} :
     \A i, j \in DOMAIN rs : i # j => rs[i].name # rs[j].name}

NumberRules ==
  {Rule("integer", Undef), Rule("precision", N(2)),
   Rule("sign", S("positive")), Rule("sign", S("negative")),
   Rule("min", N(0)), Rule("min", N(5)), Rule("min", <<"ref", "a">>),
   Rule("max", N(10))}

StringRules ==
  {Rule("email", Undef), Rule("isoDate", Undef), Rule("guid", Undef),
   Rule("pattern", <<"re", "^[a-z]+$", <<>> >>), Rule("alphanum", Undef),
   Rule("token", Undef), Rule("min", N(1))}

NumberNodes == {[Typed("number") EXCEPT !.rules = rs] : rs \in RuleSeqs(NumberRules, MaxRules)}

StringNodes == {[Typed("string") EXCEPT !.rules = rs] : rs \in RuleSeqs(StringRules, MaxRules)}

\* the children an object node is given: plain, required, and forbidden ones with and
\* without metadata
ChildNodes ==
  {Typed("string"),
   [Typed("string") EXCEPT !.presence = "required"],
   [Typed("string") EXCEPT !.className = "C"],
   [AnyNode EXCEPT !.presence = "forbidden"],
   [Overridden EXCEPT !.presence = "forbidden"],
   [Typed("string") EXCEPT !.presence = "forbidden", !.className = "C"],
   [AnyNode EXCEPT !.presence = "forbidden", !.schemaOverride = << Typed("string") >>]}

KeyNames == <<"a", "b", "c", "d">>

ObjectNodes ==
  {[Typed("object") EXCEPT !.keys = [i \in 1..Len(cs) |-> Child(KeyNames[i], cs[i])]] :
     cs \in UNION {[1..k -> ChildNodes] : k \in 0..MaxKeys}}

\* an optional sub-node over the nodes X: none or one of them
Opt(X) == {<<>>} \cup {<<x>> : x \in X}

MaxWhens == 2

\* the nodes a when clause is given as its then and otherwise branch
BranchNodes ==
  {Typed("string"),
   [Typed("number") EXCEPT !.presence = "required"],
   Overridden,
   [Overridden EXCEPT !.presence = "required"],
   [AnyNode EXCEPT !.presence = "forbidden"]}

\* the when clauses: a reference condition with an optional then and otherwise
WhenClauses ==
  {Cond(TRUE, th, ow, <<>>, <<>>) : th \in Opt(BranchNodes), ow \in Opt(BranchNodes)}

\* string nodes with up to MaxWhens when clauses
WhenNodes ==
  {[Typed("string") EXCEPT !.whens = ws] :
     ws \in UNION {[1..k -> WhenClauses] : k \in 1..MaxWhens}}

\* nodes of a Joi type that parseAsType has no entry for, with the metadata and
\* presence a caller can give them
UnrecognizedNodes ==
  {[n EXCEPT !.type = t] :
     t \in {"symbol", "link"},
     n \in {AnyNode,
            [AnyNode EXCEPT !.presence = "required"],
            [AnyNode EXCEPT !.presence = "forbidden"],
            [AnyNode EXCEPT !.className = "C"],
            [AnyNode EXCEPT !.label = "Foo", !.description = "d"],
            [AnyNode EXCEPT !.swagger = <<"L1">>],
            [AnyNode EXCEPT !.schemaOverride = << Typed("string") >>],
            Overridden}}

\* the values of _flags.default: unset, strings, numbers, booleans, null, a function
DefaultValues == {Undef, S("x"), S(""), N(0), N(5), B(FALSE), B(TRUE), Null, Fn}

\* nodes with a default
DefaultNodes ==
  {[Typed(t) EXCEPT !.default = d, !.label = l] :
     t \in {"string", "number", "boolean", "any"}, d \in DefaultValues, l \in {"", "Foo"}}

MaxPatterns == 2

\* the value nodes of object.pattern(regex, node): a string, an unconstrained any, a
\* forbidden any, a number with a className, a literal override
PatternRules ==
  {Typed("string"), AnyNode, [AnyNode EXCEPT !.presence = "forbidden"],
   [Typed("date") EXCEPT !.className = "C"], Overridden}

\* object nodes with up to MaxPatterns key patterns, with and without an explicit child,
\* with and without unknown(true)
PatternNodes ==
  {[Typed("object") EXCEPT !.patterns = [i \in 1..Len(ps) |-> << ps[i] >>],
                           !.unknown = u, !.keys = ks] :
     ps \in UNION {[1..k -> PatternRules] : k \in 0..MaxPatterns},
     u \in BOOLEAN,
     ks \in {<<>>, << Child("a", Typed("string")) >>}}

MaxItems == 3

\* the item alternatives of array.items(...): a string, a number, a forbidden any, a
\* literal override, a string labelled as the literal is titled, a string with a className
ItemNodes ==
  {Typed("string"), Typed("number"), [AnyNode EXCEPT !.presence = "forbidden"],
   Overridden, [Typed("string") EXCEPT !.label = "Bar"],
   [Typed("string") EXCEPT !.className = "C"]}

\* array nodes with up to MaxItems item alternatives
ArrayNodes ==
  {[Typed("array") EXCEPT !.items = is] :
     is \in UNION {[1..k -> ItemNodes] : k \in 0..MaxItems}}

MaxMatches == 2

\* the entries of alternatives.try(...) and alternatives.conditional(...): a schema, or
\* a reference condition with then and otherwise branches
MatchEntries ==
  {Cond(FALSE, <<>>, <<>>, <<>>, << b >>) : b \in BranchNodes}
    \cup {Cond(TRUE, << Typed("string") >>,
                << [Typed("number") EXCEPT !.presence = "required"] >>, <<>>, <<>>),
          Cond(TRUE, << [AnyNode EXCEPT !.presence = "forbidden"] >>, <<>>, <<>>, <<>>)}

\* alternatives nodes with up to MaxMatches entries and a match mode
AlternativesNodes ==
  {[Typed("alternatives") EXCEPT !.matches = ms, !.match = m] :
     ms \in UNION {[1..k -> MatchEntries] : k \in 0..MaxMatches},
     m \in {"", "one", "all"}}

\* nodes with metadata.className C: a string, a date, a date for the bucket
\* parameters, a literal override, a forbidden string
ClassChildNodes ==
  {[Typed("string") EXCEPT !.className = "C"],
   [Typed("date") EXCEPT !.className = "C"],
   [Typed("date") EXCEPT !.className = "C", !.classTarget = "parameters"],
   [Overridden EXCEPT !.className = "C"],
   [Typed("string") EXCEPT !.presence = "forbidden", !.className = "C"]}

\* the nodes with a className handed to parse: those above, a string with the className
\* D, and an object with the className C one of whose children has the className C too
ClassNodes ==
  ClassChildNodes
    \cup {[Typed("string") EXCEPT !.className = "D"],
          [Typed("object") EXCEPT
             !.className = "C",
             !.keys = << Child("a", [Typed("string") EXCEPT !.className = "C"]) >>]}

\* object nodes with up to MaxKeys children that have a className
ClassObjectNodes ==
  {[Typed("object") EXCEPT !.keys = [i \in 1..Len(cs) |-> Child(KeyNames[i], cs[i])]] :
     cs \in UNION {[1..k -> ClassChildNodes] : k \in 1..MaxKeys}}

\* the nodes given as metadata.schemaOverride: a string, a forbidden any, a string that
\* has a schemaOverride itself, and an object, an array and an alternatives node with
\* a child, item or branch that has a schemaOverride
OverrideTargets ==
  LET inner == [Typed("string") EXCEPT !.schemaOverride = << Typed("number") >>]
  IN {Typed("string"), [AnyNode EXCEPT !.presence = "forbidden"], inner,
      [Typed("object") EXCEPT !.keys = << Child("a", Typed("string")) >>],
      [Typed("object") EXCEPT !.keys = << Child("a", Typed("string")), Child("b", inner) >>],
      [Typed("array") EXCEPT !.items = << inner >>],
      [Typed("alternatives") EXCEPT
         !.matches = << Cond(FALSE, <<>>, <<>>, <<>>, << inner >>) >>]}

\* nodes with a schemaOverride, with and without fields of their own
OverrideNodes ==
  {[n EXCEPT !.schemaOverride = << o >>] :
     n \in {Typed("boolean"), [Typed("boolean") EXCEPT !.label = "Foo", !.presence = "required"]},
     o \in OverrideTargets}

CompileNodes ==
  NumberNodes \cup StringNodes \cup ObjectNodes \cup WhenNodes \cup UnrecognizedNodes
    \cup DefaultNodes \cup PatternNodes \cup ArrayNodes \cup AlternativesNodes
    \cup ClassNodes \cup ClassObjectNodes \cup OverrideNodes

\* the components.schemas a caller of parse may already have: none, or a schema C
KnownSchemas == { <<>>, << <<"C", O(<< <<"type", S("string")>> >>)>> >> }

\* the existingComponents argument of parse made of the caller's schemas
ExistingComponents(known) ==
  IF known = <<>> THEN <<>> ELSE << <<"schemas", O(known)>> >>

InitCompile ==
  /\ pc = "compile"
  /\ cnode \in CompileNodes
  /\ cout = RetFalse(Literals)
  /\ heap = Literals
  /\ declared = <<>>
  /\ declaredParams = <<>>
  /\ regIdx = 0
  /\ schemas \in KnownSchemas
  /\ parameters = <<>>
  /\ schemaMap = EmptyMap
  /\ convertedSchemasMap = EmptyMap
  /\ calls = 0
  /\ last = NoOp
  /\ strAt = EmptyMap
  /\ returned = EmptyMap
  /\ klass = <<>>
  /\ pathIdx = 0
  /\ doc = <<>>
  /\ NoRequest

\* parse(cnode, existingComponents): the caller compiles its node
Compile ==
  /\ pc = "compile"
  /\ cout' = parse(cnode, ExistingComponents(schemas), FALSE, heap)
  /\ heap' = cout'.h
  /\ pc' = "compiled"
  /\ UNCHANGED <<declared, declaredParams, regIdx, schemas, parameters, schemaMap,
                 convertedSchemasMap, calls, last, strAt, returned, cnode, klass, pathIdx, doc, http>>

NextCompile == Compile

SpecCompile == InitCompile /\ [][NextCompile]_vars

(***************************************************************************)
(* schema-to-swagger: the paths.  A route is what createRoute returns:      *)
(* path, method, summary, tags and the optional headers, query, body and    *)
(* responses (an optional part is <<>> or <<part>>); a content entry holds  *)
(* the identity of its Joi schema.                                          *)
(***************************************************************************)
RECURSIVE pathsFrom(_, _)
\* the loop of RouteSchema.paths over the static route properties, in property order
pathsFrom(routes, swaggerPaths) ==
  IF routes = <<>> THEN swaggerPaths
  ELSE LET potentialRoute == routes[1]
           inner == IF HasKey(swaggerPaths, potentialRoute.path)
                    THEN GetKey(swaggerPaths, potentialRoute.path) ELSE <<>>
       IN pathsFrom(Tail(routes),
                    IF potentialRoute.path # "" /\ potentialRoute.method # ""
                    THEN SetKey(swaggerPaths, potentialRoute.path,
                                SetKey(inner, potentialRoute.method, potentialRoute))
                    ELSE swaggerPaths)

\* RouteSchema.paths: pairs path -> pairs method -> route
RoutePaths(routes) == pathsFrom(routes, <<>>)

RECURSIVE paramNameToRefName(_)
\* the map of buildSwaggerPaths from a registered parameter's name to its refName
paramNameToRefName(swaggerParameters) ==
  IF swaggerParameters = <<>> THEN <<>>
  ELSE LET n == Len(swaggerParameters)
           paramObj == swaggerParameters[n][2]
       IN SetKey(paramNameToRefName(SubSeq(swaggerParameters, 1, n - 1)),
                 GetKey(Props(paramObj, <<>>), "name")[2], swaggerParameters[n][1])

\* Object.keys(node.describe().keys || {}) of an optional object node
DescribedKeys(part) ==
  IF part = <<>> THEN <<>> ELSE [i \in 1..Len(part[1].keys) |-> part[1].keys[i].key]

\* the $ref entries collectParameters pushes for the keys ks
ParameterRefs(ks, refNames) ==
  [i \in 1..Len(ks) |->
     O(<< <<"$ref", S("#/components/parameters/" \o
                       (IF HasKey(refNames, ks[i]) THEN GetKey(refNames, ks[i])
                        ELSE ks[i]))>> >>)]

collectParameters(methodConfig, refNames) ==
  ParameterRefs(DescribedKeys(methodConfig.headers), refNames)
    \o ParameterRefs(DescribedKeys(methodConfig.query), refNames)

Built(value, reg) == [kind |-> "ok", value |-> value, reg |-> reg, err |-> ""]
Failed(err, reg) == [kind |-> "throw", value |-> Undef, reg |-> reg, err |-> err]

RECURSIVE contentLoop(_, _, _, _)
\* Object.entries(content).forEach of buildRequestBody and buildResponses: each media
\* type's schema is resolved to a $ref; an entry is <<mimeType, schema>> or
\* <<mimeType, schema, examples>>, and only buildResponses attaches the examples
contentLoop(entries, content, attachExamples, reg) ==
  IF entries = <<>> THEN Built(O(content), reg)
  ELSE With(getSchemaNameFromObj(entries[1][2], NodeOf(entries[1][2]), reg),
       LAMBDA r :
         IF r.kind = "throw" THEN Failed(r.err, r.reg)
         ELSE contentLoop(Tail(entries),
                SetKey(content, entries[1][1],
                       O(<< <<"schema", refDef("schemas", r.name)>> >>
                         \o (IF attachExamples /\ Len(entries[1]) = 3
                             THEN << <<"examples", entries[1][3]>> >> ELSE <<>>))),
                attachExamples, r.reg))

buildRequestBody(bodyConfig, reg) ==
  IF bodyConfig = <<>> \/ bodyConfig[1].content = <<>> THEN Built(Null, reg)
  ELSE With(contentLoop(bodyConfig[1].content[1], <<>>, FALSE, reg),
       LAMBDA c :
         IF c.kind = "throw" THEN c
         ELSE Built(O(<< <<"description", S(bodyConfig[1].description)>>,
                         <<"required", B(bodyConfig[1].required)>>,
                         <<"content", c.value>> >>), c.reg))

RECURSIVE responsesLoop(_, _, _)
\* Object.entries(responsesConfig).forEach of buildResponses
responsesLoop(entries, responses, reg) ==
  IF entries = <<>> THEN Built(O(responses), reg)
  ELSE LET statusCode == entries[1][1]
           responseObj == entries[1][2]
       IN With(IF responseObj.content = <<>> THEN Built(O(<<>>), reg)
               ELSE contentLoop(responseObj.content[1], <<>>, TRUE, reg),
          LAMBDA c :
            IF c.kind = "throw" THEN c
            ELSE responsesLoop(Tail(entries),
                   SetKey(responses, statusCode,
                          O(<< <<"description", responseObj.description>>,
                               <<"content", c.value>> >>)),
                   c.reg))

buildResponses(responsesConfig, reg) ==
  IF responsesConfig = <<>> THEN Built(O(<<>>), reg)
  ELSE responsesLoop(responsesConfig[1], <<>>, reg)

\* one turn of Object.keys(paths).forEach of buildSwaggerPaths: the value is swaggerPaths
buildSwaggerPath(path, routeDef, swaggerPaths, swaggerParameters, reg) ==
  IF routeDef = <<>> \/ routeDef[1][2].method = "" THEN Built(swaggerPaths, reg)
  ELSE
  LET methodKey == routeDef[1][1]
      methodConfig == routeDef[1][2]
      params == collectParameters(methodConfig, paramNameToRefName(swaggerParameters))
  IN With(buildRequestBody(methodConfig.body, reg),
     LAMBDA requestBody :
       IF requestBody.kind = "throw" THEN requestBody
       ELSE With(buildResponses(methodConfig.responses, requestBody.reg),
            LAMBDA responses :
              IF responses.kind = "throw" THEN responses
              ELSE Built(
                     SetKey(swaggerPaths, path,
                       O(<< <<methodKey,
                              O(<< <<"tags", A([i \in 1..Len(methodConfig.tags) |->
                                                  S(methodConfig.tags[i])])>>,
                                   <<"summary", S(methodConfig.summary)>>,
                                   <<"parameters", A(params)>> >>
                                \o (IF Truthy(requestBody.value)
                                    THEN << <<"requestBody", requestBody.value>> >>
                                    ELSE <<>>)
                                \o << <<"responses", responses.value>> >>)>> >>)),
                     responses.reg)))

RECURSIVE registerAll(_, _)
\* the first loop of buildSwaggerComponents over the declared schemas
registerAll(decls, reg) ==
  IF decls = <<>> THEN Built(Null, reg)
  ELSE With(registerSchema(decls[1][1], decls[1][2], NodeOf(decls[1][2]), reg),
       LAMBDA r :
         IF r.kind = "throw" THEN Failed(r.err, r.reg)
         ELSE registerAll(Tail(decls), r.reg))

\* buildSwaggerComponents(schemaClass): the value is swaggerComponents.parameters, the
\* registry holds swaggerComponents.schemas and the two Maps
buildSwaggerComponents(decls, params, h) ==
  With(registerAll(decls, Registry(<<>>, EmptyMap, EmptyMap, h)),
  LAMBDA a :
    IF a.kind = "throw" THEN a
    ELSE With(buildParameters(params, <<>>, a.reg.h),
         LAMBDA b :
           IF b.kind = "throw" THEN Failed(b.err, [a.reg EXCEPT !.h = b.h])
           ELSE Built(b.parameters, [a.reg EXCEPT !.h = b.h])))

(***************************************************************************)
(* schemaToSwagger(schemaClass) for a schema class with up to MaxRoutes     *)
(* routes, static properties created by createRoute in property order.      *)
(***************************************************************************)
MaxRoutes == 2

RoutePathNames == {"/a", "/b"}
Methods == {"get", "post"}

\* a headers node and a query node, each with a forbidden key
HeadersNode ==
  [Typed("object") EXCEPT
     !.keys = << Child("x-request-id", [Typed("string") EXCEPT
                                          !.rules = << Rule("guid", Undef) >>]),
                 Child("x-internal", [Typed("string") EXCEPT !.presence = "forbidden"]) >>,
     !.unknown = TRUE]

QueryNode ==
  [Typed("object") EXCEPT
     !.keys = << Child("limit", Typed("number")),
                 Child("debug", [AnyNode EXCEPT !.presence = "forbidden"]) >>]

JsonContent(id) == << << <<"application/json", id>> >> >>

Responds(id) ==
  << << <<"200", [description |-> S("OK"), content |-> JsonContent(id)]>> >> >>

\* what a route may declare besides path and method
RouteParts ==
  { [headers |-> <<>>, query |-> <<>>, body |-> <<>>, responses |-> <<>>],
    [headers |-> << HeadersNode >>, query |-> << QueryNode >>, body |-> <<>>,
     responses |-> Responds("f1")],
    [headers |-> <<>>, query |-> <<>>,
     body |-> << [description |-> "", required |-> TRUE,
                  content |-> << << <<"application/json", "f2">>,
                                    <<"application/xml", "f1">> >> >>] >>,
     responses |->
       << << <<"200", [description |-> S("OK"),
                       content |-> << << <<"application/json", "f1",
                                           O(<< <<"ok", O(<<>>)>> >>)>> >> >>]>>,
             <<"204", [description |-> S("No Content"), content |-> <<>>]>> >> >>],
    [headers |-> << HeadersNode >>, query |-> <<>>, body |-> <<>>,
     responses |-> Responds("e1")],
    [headers |-> <<>>, query |-> <<>>,
     body |-> << [description |-> "upload", required |-> FALSE, content |-> <<>>] >>,
     responses |->
       << << <<"200", [description |-> S("OK"), content |-> JsonContent("c1")]>>,
             <<"202", [description |-> S("Accepted"), content |-> << <<>> >>]>> >> >>] }

\* createRoute({path, method, summary, headers, query, body, responses}) of a schema
\* class whose one tag is Products
createRoute(path, method, summary, parts) ==
  [path |-> path, method |-> method, summary |-> summary, tags |-> <<"Products">>,
   headers |-> parts.headers, query |-> parts.query, body |-> parts.body,
   responses |-> parts.responses]

Routes ==
  {createRoute(path, method, "summary of " \o method \o " " \o path, parts) :
     path \in RoutePathNames, method \in Methods, parts \in RouteParts}

\* parameters() of the schema class: none, the header, or the header and a query
\* parameter
RouteParamDeclarations ==
  ParamDeclarations
    \cup { << <<"RequestIdHeader", RequestIdHeader>>,
             <<"LimitParam",
               [Typed("object") EXCEPT !.keys = << Child("limit", Typed("number")) >>]>> >> }

InitPaths ==
  /\ klass \in UNION {[1..n -> Routes] : n \in 0..MaxRoutes}
  /\ declared \in { <<>>, << <<"Foo", "f1">> >> }
  /\ declaredParams \in RouteParamDeclarations
  /\ pc = "components"
  /\ heap = Literals
  /\ regIdx = 0
  /\ schemas = <<>>
  /\ parameters = <<>>
  /\ schemaMap = EmptyMap
  /\ convertedSchemasMap = EmptyMap
  /\ calls = 0
  /\ last = NoOp
  /\ strAt = EmptyMap
  /\ returned = EmptyMap
  /\ cnode = AnyNode
  /\ cout = RetFalse(Literals)
  /\ pathIdx = 0
  /\ doc = <<>>
  /\ NoRequest

\* the registry after a step of the assembler, which an exception ends
Assembled(op, r, then) ==
  /\ pc' = IF r.kind = "throw" THEN "failed" ELSE then
  /\ heap' = r.reg.h
  /\ schemas' = r.reg.schemas
  /\ schemaMap' = r.reg.schemaMap
  /\ convertedSchemasMap' = r.reg.convertedSchemasMap
  /\ last' = [NoOp EXCEPT !.op = op, !.kind = r.kind, !.err = r.err]

\* swaggerComponents after step 1
ComponentsBuilt(r) ==
  /\ Assembled("components", r, "paths")
  /\ parameters' = IF r.kind = "ok" THEN r.value ELSE parameters

\* step 1 of schemaToSwagger
BuildSwaggerComponents ==
  /\ pc = "components"
  /\ ComponentsBuilt(buildSwaggerComponents(declared, declaredParams, heap))
  /\ regIdx' = Len(declared)
  /\ UNCHANGED <<declared, declaredParams, calls, strAt, returned, cnode, cout, klass,
                 pathIdx, doc, http>>

\* swaggerPaths after one path
PathBuilt(r) ==
  /\ Assembled("path", r, "paths")
  /\ doc' = IF r.kind = "ok" THEN r.value ELSE doc

\* step 2 of schemaToSwagger, one path of schemaClass.paths at a time
BuildSwaggerPath ==
  /\ pc = "paths"
  /\ pathIdx < Len(RoutePaths(klass))
  /\ PathBuilt(buildSwaggerPath(RoutePaths(klass)[pathIdx + 1][1],
                                RoutePaths(klass)[pathIdx + 1][2],
                                doc, parameters, TheRegistry))
  /\ pathIdx' = pathIdx + 1
  /\ UNCHANGED <<declared, declaredParams, regIdx, parameters, calls, strAt, returned,
                 cnode, cout, klass, http>>

\* schemaToSwagger returns the definition
ReturnDefinition ==
  /\ pc = "paths"
  /\ pathIdx = Len(RoutePaths(klass))
  /\ pc' = "done"
  /\ UNCHANGED <<heap, declared, declaredParams, regIdx, schemas, parameters, schemaMap,
                 convertedSchemasMap, calls, last, strAt, returned, cnode, cout, klass,
                 pathIdx, doc, http>>

(***************************************************************************)
(* middleware-validator: validateRequest(schema)(req, res, next).           *)
(* A container of the request is <<>> when the request has none, else       *)
(* <<value>>; a value records whether Joi accepts it (ok) and whether it is *)
(* the value Joi returned (validated).  The content-type header is the list *)
(* of its parts between ';'.  A declared schema is <<>> when the route has  *)
(* none; the body declaration is a record with an optional content map.     *)
(***************************************************************************)
\* the containers with the body before the query
containers_BodyFirst ==
  << <<"body", [convert |-> TRUE, allowUnknown |-> FALSE, abortEarly |-> FALSE]>>,
     <<"query", [convert |-> TRUE, allowUnknown |-> FALSE, abortEarly |-> TRUE]>>,
     <<"headers", [convert |-> TRUE, allowUnknown |-> TRUE, abortEarly |-> FALSE]>>,
     <<"params", [convert |-> TRUE, allowUnknown |-> FALSE, abortEarly |-> FALSE]>>,
     <<"fields", [convert |-> TRUE, allowUnknown |-> FALSE, abortEarly |-> FALSE]>> >>

\* the containers validated, in the order of Object.entries(containers), each with its
\* Joi options
containers ==
  << <<"query", [convert |-> TRUE, allowUnknown |-> FALSE, abortEarly |-> TRUE]>>,
     <<"body", [convert |-> TRUE, allowUnknown |-> FALSE, abortEarly |-> FALSE]>>,
     <<"headers", [convert |-> TRUE, allowUnknown |-> TRUE, abortEarly |-> FALSE]>>,
     <<"params", [convert |-> TRUE, allowUnknown |-> FALSE, abortEarly |-> FALSE]>>,
     <<"fields", [convert |-> TRUE, allowUnknown |-> FALSE, abortEarly |-> FALSE]>> >>

\* req.headers['x-request-id'] || req.requestID || null
getRequestID(r) ==
  IF r.headers[1].requestId # "" THEN S(r.headers[1].requestId)
  ELSE IF r.requestID # "" THEN S(r.requestID)
  ELSE Null

\* the header as sent: its parts joined by ';'
RECURSIVE HeaderText(_)
HeaderText(parts) ==
  IF Len(parts) = 1 THEN parts[1] ELSE parts[1] \o ";" \o HeaderText(Tail(parts))

\* contentTypeOf without the split: the whole header
contentTypeOf_WholeHeader(r) ==
  IF r.headers[1].contentType = <<>> THEN "undefined"
  ELSE HeaderText(r.headers[1].contentType)

\* req.headers['content-type']?.split(';')[0], "undefined" when there is no header
contentTypeOf(r) ==
  IF r.headers[1].contentType = <<>> THEN "undefined"
  ELSE r.headers[1].contentType[1]

\* joiSchema.validate(value, options): an error for a value Joi rejects, else the
\* value as Joi returns it
Validate(joiSchema, value, options) ==
  IF value.ok THEN [error |-> "", value |-> [value EXCEPT !.validated = TRUE]]
  ELSE [error |-> "\"" \o joiSchema \o "\" is invalid", value |-> value]

\* every error answered with the status 400
Json422or415_BadRequest(code, requestID, message) ==
  [status |-> 400, json |-> O(<< <<"requestID", requestID>>, <<"error", S(message)>> >>)]

\* res.status(code).json({requestID, error})
Json422or415(code, requestID, message) ==
  [status |-> code, json |-> O(<< <<"requestID", requestID>>, <<"error", S(message)>> >>)]

\* the outcome of the middleware: the request as left, the response, the calls of next
Handled(r, response, calls_) == [req |-> r, res |-> response, nextCalls |-> calls_]

\* req.body.file = req.file.buffer; req.body.mimetype = req.file.mimetype
WithFile(r) ==
  IF r.file # <<>> THEN [r EXCEPT !.body = << [@[1] EXCEPT !.file = TRUE] >>] ELSE r

RECURSIVE validateContainers(_, _, _, _)
\* the loop of validateRequest over the containers cs still to validate
validateContainers(cs, schema, r, requestID) ==
  IF cs = <<>> THEN Handled(r, <<>>, << <<>> >>)
  ELSE
  LET container == cs[1][1]
      options == cs[1][2]
      r1 == IF container = "body" THEN WithFile(r) ELSE r
  IN IF schema[container] = <<>> \/ r[container] = <<>>
     THEN validateContainers(Tail(cs), schema, r, requestID)
     ELSE IF container = "body" /\ schema.body[1].content # <<>>
     THEN LET contentType == contentTypeOf(r1)
              content == schema.body[1].content[1]
          IN IF HasKey(content, contentType)
             THEN LET v == Validate(GetKey(content, contentType), r1.body[1], options)
                  IN IF v.error # "" THEN Handled(r1, Json422or415(422, requestID, v.error), <<>>)
                     ELSE validateContainers(Tail(cs), schema,
                                             [r1 EXCEPT !.body = << v.value >>], requestID)
             ELSE Handled(r1, Json422or415(415, requestID,
                                           "Unsupported content type: " \o contentType), <<>>)
     ELSE IF container = "body" /\ schema.body[1].validate = <<>>
     THEN \* schema.body is a body declaration, which has no validate method: the
          \* TypeError is caught and, no response being sent, handed to next
          Handled(r1, <<>>, << << "TypeError: schema[container].validate is not a function" >> >>)
     ELSE LET joiSchema == IF container = "body" THEN schema.body[1].validate[1]
                           ELSE schema[container][1]
              v == Validate(joiSchema, r1[container][1], options)
          IN IF v.error # "" THEN Handled(r1, Json422or415(422, requestID, v.error), <<>>)
             ELSE validateContainers(Tail(cs), schema,
                                     [r1 EXCEPT ![container] = << v.value >>], requestID)

\* validateRequest(schema)(req, res, next)
validateRequest(schema, r) == validateContainers(containers, schema, r, getRequestID(r))

\* the values a request may carry in a container
Good == [ok |-> TRUE, validated |-> FALSE]
Bad == [ok |-> FALSE, validated |-> FALSE]

\* the bodies a route may declare: none, a declaration with a content map, a
\* declaration without one, and a Joi schema (which has a validate method)
BodyDeclarations ==
  { <<>>,
    << [description |-> "", content |-> << << <<"application/json", "JsonBody">> >> >>,
        validate |-> <<>>] >>,
    << [description |-> "", content |-> <<>>, validate |-> <<>>] >>,
    << [description |-> "", content |-> <<>>, validate |-> << "Body" >>] >> }

ContentTypes ==
  { <<>>, <<"application/json">>, <<"application/json", " charset=utf-8">>, <<"text/plain">> }

RouteSchemas ==
  [query : Opt({"Query"}), body : BodyDeclarations, headers : Opt({"Headers"}),
   params : Opt({"Params"}), fields : Opt({"Fields"})]

Requests ==
  [query : Opt({Good, Bad}),
   body : Opt({[ok |-> b, validated |-> FALSE, file |-> FALSE] : b \in BOOLEAN}),
   file : Opt({"upload"}),
   headers : {<< [ok |-> b, validated |-> FALSE, contentType |-> ct, requestId |-> id] >> :
                b \in BOOLEAN, ct \in ContentTypes, id \in {"", "r-1"}},
   params : {<< Good >>, << Bad >>},
   fields : Opt({Bad}),
   requestID : {""}]

InitValidate ==
  /\ routeSchema \in RouteSchemas
  /\ req \in Requests
  /\ res = <<>>
  /\ nextCalls = <<>>
  /\ pc = "request"
  /\ heap = Literals
  /\ declared = <<>>
  /\ declaredParams = <<>>
  /\ regIdx = 0
  /\ schemas = <<>>
  /\ parameters = <<>>
  /\ schemaMap = EmptyMap
  /\ convertedSchemasMap = EmptyMap
  /\ calls = 0
  /\ last = NoOp
  /\ strAt = EmptyMap
  /\ returned = EmptyMap
  /\ cnode = AnyNode
  /\ cout = RetFalse(Literals)
  /\ klass = <<>>
  /\ pathIdx = 0
  /\ doc = <<>>

\* the request, the response and the calls of next after the middleware ran
Responded(r) ==
  /\ req' = r.req
  /\ res' = r.res
  /\ nextCalls' = r.nextCalls

\* Express calls the middleware with the request
ValidateRequest ==
  /\ pc = "request"
  /\ Responded(validateRequest(routeSchema, req))
  /\ pc' = "handled"
  /\ UNCHANGED <<heap, declared, declaredParams, regIdx, schemas, parameters, schemaMap,
                 convertedSchemasMap, calls, last, strAt, returned, cnode, cout, klass,
                 pathIdx, doc, routeSchema>>

NextValidate == ValidateRequest

SpecValidate == InitValidate /\ [][NextValidate]_vars

(***************************************************************************)
(* schemaToSwagger for a schema class without routes and with up to         *)
(* MaxParams declared parameters: the components of the document.           *)
(***************************************************************************)
MaxParams == 2

\* an object node with the one key k
OneKey(k, child) == [Typed("object") EXCEPT !.keys = << Child(k, child) >>]

\* the parameter schemas a schema class may declare, by their refName
ParamNodes ==
  << <<"RequestIdHeader", RequestIdHeader>>,
     <<"TraceHeader", OneKey("x-trace", [Typed("string") EXCEPT !.presence = "required"])>>,
     <<"Limit", OneKey("limit", [Typed("number") EXCEPT !.presence = "required",
                                                        !.description = "Page size"])>>,
     <<"Offset", OneKey("offset", Typed("number"))>>,
     <<"Sort", [Typed("object") EXCEPT
                  !.keys = << Child("sort", [Typed("string") EXCEPT !.label = "Sort"]),
                              Child("x-order", [Typed("string") EXCEPT
                                                  !.presence = "required"]) >>]>>,
     <<"Hidden", OneKey("debug", [AnyNode EXCEPT !.presence = "forbidden"])>>,
     <<"Empty", Typed("object")>>,
     <<"Plain", Typed("string")>> >>

\* parameters() of a schema class: up to MaxParams of them, each refName once
ParamClasses ==
  {[i \in 1..Len(c) |-> ParamNodes[c[i]]] :
     c \in {c \in UNION {[1..n -> 1..Len(ParamNodes)] : n \in 0..MaxParams} :
              \A i, j \in DOMAIN c : i # j => c[i] # c[j]}}

InitComponents ==
  /\ klass = <<>>
  /\ declared \in { <<>>, << <<"Foo", "f1">> >> }
  /\ declaredParams \in ParamClasses
  /\ pc = "components"
  /\ heap = Literals
  /\ regIdx = 0
  /\ schemas = <<>>
  /\ parameters = <<>>
  /\ schemaMap = EmptyMap
  /\ convertedSchemasMap = EmptyMap
  /\ calls = 0
  /\ last = NoOp
  /\ strAt = EmptyMap
  /\ returned = EmptyMap
  /\ cnode = AnyNode
  /\ cout = RetFalse(Literals)
  /\ pathIdx = 0
  /\ doc = <<>>
  /\ NoRequest

NextComponents ==
  \/ BuildSwaggerComponents
  \/ ReturnDefinition

SpecComponents == InitComponents /\ [][NextComponents]_vars

NextPaths ==
  \/ BuildSwaggerComponents
  \/ BuildSwaggerPath
  \/ ReturnDefinition

SpecPaths == InitPaths /\ [][NextPaths]_vars

(***************************************************************************)
(* Properties of the reference resolver within one build                    *)
(***************************************************************************)
\* the step is a resolver call on node n
ResolveStep(n) == pc = "resolve" /\ calls' = calls + 1 /\ last'.node = n

\* what node n compiles to in the present state
Compiled(n) == j2s(NodeOf(n), heap)

\* the shape str was declared by the schema class under two component keys
DeclaredTwice(str) ==
  \E i, j \in 1..regIdx :
    i # j /\ strAt[declared[i][2]] = str /\ strAt[declared[j][2]] = str

\* C1 (as amended): two nodes of different identity whose compiled schemas had the same
\* canonical string when they were bound, and whose shape the schema class has not
\* declared under two keys, got the same component name from the resolver; and a
\* resolution of a node whose string another bound node already had adds no entry to
\* components.schemas.
C1_StructuralDedup ==
  /\ \A a, b \in DOMAIN returned :
       (a # b /\ strAt[a] = strAt[b] /\ ~DeclaredTwice(strAt[a]))
         => returned[a] = returned[b]
  /\ (last.op = "resolve" /\ last.kind = "ok"
        /\ \E m \in DOMAIN strAt \ {last.node} : strAt[m] = last.str)
       => ~last.added

\* C1 as stated: any two nodes of different identity with the same canonical string
\* got the same component name.
C1_AnyTwoSameShape ==
  \A a, b \in DOMAIN returned :
    (a # b /\ strAt[a] = strAt[b]) => returned[a] = returned[b]

\* an ad hoc node was compiled and took the name of a node of the same shape
C1_Witness ==
  /\ last.op = "resolve" /\ last.kind = "ok" /\ last.compiled /\ ~last.added
  /\ ~DeclaredTwice(last.str)
  /\ \E m \in DOMAIN returned \ {last.node} :
       strAt[m] = last.str /\ returned[m] = last.name

\* the definition stored under name k, as the document would show it
Definition(pairs, k, h) == Stringify(GetKey(pairs, k), h)

\* C2: once components.schemas[name] is written, no later registration or resolver
\* call changes the definition stored under that name.
C2_WrittenOnce ==
  [][\A k \in KeySet(schemas) :
       Definition(schemas', k, heap') = Definition(schemas, k, heap)]_vars

\* the canonical string of a compilation's schema
ShapeOf(c) == Stringify(c.swagger, c.h)

\* the title of a compilation's schema, "" when it has none
TitleOf(c) ==
  LET title == GetKey(Props(c.swagger, c.h), "title")
  IN IF Tag(title) = "s" THEN title[2] ELSE ""

\* a schema without its title, as a string
Untitled(v, h) == Stringify(O(DelKey(Props(v, h), "title")), h)

\* the node is in neither index: not a key of byIdentity, its string not a key of byShape
Unindexed(n, c) ==
  n \notin DOMAIN schemaMap /\ c.kind = "ok" /\ ShapeOf(c) \notin DOMAIN convertedSchemasMap

\* the call failed with err and wrote no entry of components.schemas nor of the two Maps
FailedWith(err) ==
  /\ last'.kind = "throw" /\ last'.err = err
  /\ UNCHANGED <<schemas, schemaMap, convertedSchemasMap>>

C4_TwinsResolveToFoo ==
  (/\ declared = <<>>
   /\ last.op = "resolve"
   /\ last.node \in {"e1", "f1"}
   /\ DOMAIN returned \subseteq {"e1", "f1"})
    => (last.kind = "ok" /\ last.name = "Foo")

\* C5 (as amended): resolving a node that is in neither index and whose compiled schema
\* has no title (no label, and none from a swagger literal) raises the missing-label
\* error -- a TypeError when the node is forbidden and compiles to nothing --; the
\* failing call writes no entry of components.schemas and leaves byIdentity and byShape
\* unchanged.
C5_MissingTitle ==
  [][\A n \in Pool :
       With(Compiled(n), LAMBDA c :
         (/\ ResolveStep(n)
          /\ Unindexed(n, c)
          /\ TitleOf(c) = "")
           => FailedWith(IF Tag(c.swagger) = "undef" THEN ErrTypeError ELSE ErrNoLabel))]_vars

\* C5 as stated: resolving a node without a label that is in neither index raises the
\* missing-label error and leaves the registry unchanged.
C5_MissingLabel ==
  [][\A n \in Pool :
       With(Compiled(n), LAMBDA c :
         (/\ ResolveStep(n)
          /\ NodeOf(n).label = ""
          /\ n \notin DOMAIN schemaMap
          /\ ShapeOf(c) \notin DOMAIN convertedSchemasMap)
           => FailedWith(ErrNoLabel))]_vars

\* an unlabelled node that neither index knew was refused, in a build that had
\* registered components
C5_Witness ==
  /\ last.op = "resolve" /\ last.kind = "throw" /\ last.err = ErrNoLabel
  /\ NodeOf(last.node).label = ""
  /\ last.node \notin DOMAIN schemaMap
  /\ last.str \notin DOMAIN convertedSchemasMap
  /\ schemas # <<>>

\* C6: resolving a node the resolver has already named returns the same name and leaves
\* components.schemas, byIdentity, byShape and the caller's literals as they were.
C6_ResolveTwice ==
  [][\A n \in DOMAIN returned :
       ResolveStep(n)
         => /\ last'.kind = "ok" /\ last'.name = returned[n]
            /\ UNCHANGED <<schemas, schemaMap, convertedSchemasMap, heap>>]_vars

\* a node was resolved a second time, after other nodes were registered
C6_Witness ==
  /\ last.op = "resolve" /\ last.kind = "ok" /\ ~last.compiled
  /\ returned[last.node] = last.name
  /\ calls > 1
  /\ Len(schemas) > 1

\* C29: after the registration of the declared schemas and after every call of the
\* resolver that returns, every name that schemaMap or convertedSchemasMap holds as a
\* value is a key of components.schemas, and so is the name the resolver returned.
C29_IndexedNamesAreDefined ==
  pc \in {"register", "resolve"}
    => /\ \A id \in DOMAIN schemaMap : HasKey(schemas, schemaMap[id])
       /\ \A str \in DOMAIN convertedSchemasMap : HasKey(schemas, convertedSchemasMap[str])
       /\ (last.op = "resolve" /\ last.kind = "ok") => HasKey(schemas, last.name)
       /\ \A id \in DOMAIN returned : HasKey(schemas, returned[id])

\* the resolver named a node that no declaration had registered and stored its
\* definition, after a registration that filled both Maps
C29_Witness ==
  /\ pc = "resolve" /\ last.op = "resolve" /\ last.kind = "ok" /\ last.added
  /\ HasKey(schemas, last.name)
  /\ schemaMap[last.node] = last.name
  /\ \E id \in DOMAIN schemaMap : schemaMap[id] # last.name

\* C18: resolving a labelled node whose label is a key of components.schemas and whose
\* compiled shape is that of the definition under the key (the title apart, which a
\* stored definition may lack) binds the node to that name and returns it, without
\* error and without adding or changing an entry of components.schemas.
C18_SameShapeUnderLabelReused ==
  [][\A n \in Pool :
       With(Compiled(n), LAMBDA c :
         (/\ ResolveStep(n)
          /\ NodeOf(n).label # ""
          /\ c.kind = "ok" /\ TitleOf(c) = NodeOf(n).label
          /\ HasKey(schemas, NodeOf(n).label)
          /\ Untitled(c.swagger, c.h) = Untitled(GetKey(schemas, NodeOf(n).label), c.h))
           => /\ last'.kind = "ok" /\ last'.name = NodeOf(n).label
              /\ n \in DOMAIN schemaMap' /\ schemaMap'[n] = NodeOf(n).label
              /\ Keys(schemas') = Keys(schemas)
              /\ \A k \in KeySet(schemas) :
                   Definition(schemas', k, heap') = Definition(schemas, k, heap))]_vars

\* C12: a build leaves the caller's input as it was: every metadata.swagger literal
\* attached to a node holds, in every state of the build, what the caller put in it.
C12_InputUnchanged == heap = Literals

(***************************************************************************)
(* Properties of the compilation of one node                                *)
(***************************************************************************)
\* the compiled schema's own properties
Out == Props(cout.swagger, cout.h)

\* the elements of an array value, none when the value is no array
Elems(v) == IF Tag(v) = "a" THEN v[2] ELSE <<>>

\* C7: a forbidden child of an object node is absent from the compiled properties and
\* from the required list, whatever metadata it carries.
C7_ForbiddenAbsent ==
  (pc = "compiled" /\ cnode.type = "object" /\ cout.kind = "ok")
    => \A i \in 1..Len(cnode.keys) :
         cnode.keys[i].schema.presence = "forbidden"
           => /\ ~HasKey(Props(GetKey(Out, "properties"), cout.h), cnode.keys[i].key)
              /\ ~IncludesStr(Elems(GetKey(Out, "required")), cnode.keys[i].key)

\* an object node that carries no metadata and no when clause: its compiled schema is
\* what the object extractor returned
PlainObject ==
  /\ cnode.type = "object" /\ cnode.baseType = ""
  /\ cnode.className = "" /\ cnode.swagger = <<>> /\ cnode.schemaOverride = <<>>
  /\ cnode.whens = <<>> /\ cnode.presence # "forbidden"

RECURSIVE EmittedChildren(_, _)
\* the children that do not compile to false, in declaration order, each with its
\* compiled schema; every child is compiled with the components known so far
EmittedChildren(children, known) ==
  IF children = <<>> THEN <<>>
  ELSE With(parse(children[1].schema, known, FALSE, Literals), LAMBDA r :
         IF r.kind = "ok"
         THEN << [key |-> children[1].key, swagger |-> r.swagger,
                  required |-> children[1].schema.presence = "required"] >>
              \o EmittedChildren(Tail(children), Merge(known, r.components, Literals))
         ELSE EmittedChildren(Tail(children), known))

\* C21: the properties of a compiled object node are exactly its children that do not
\* compile to false, keyed by child key in declaration order; required lists, in
\* declaration order, the keys of the emitted children whose own presence is required,
\* and there is no required field when no emitted child is required.
C21_PropertiesAndRequired ==
  (pc = "compiled" /\ PlainObject /\ cout.kind = "ok")
    => LET emitted == EmittedChildren(cnode.keys, ExistingComponents(schemas))
           requireds == SelectSeq(emitted, LAMBDA e : e.required)
       IN /\ GetKey(Out, "properties")
               = O([i \in 1..Len(emitted) |-> <<emitted[i].key, emitted[i].swagger>>])
          /\ IF requireds = <<>> THEN ~HasKey(Out, "required")
             ELSE GetKey(Out, "required")
                    = A([i \in 1..Len(requireds) |-> S(requireds[i].key)])

\* an object node with two required children, compiled, and one with a dropped child
\* whose other child is required
C21_Witness ==
  /\ pc = "compiled" /\ PlainObject /\ cout.kind = "ok"
  /\ Len(cnode.keys) = 2
  /\ cnode.keys[2].schema.presence = "required"
  /\ \/ GetKey(Out, "required") = A(<<S("a"), S("b")>>)
     \/ /\ GetKey(Out, "required") = A(<<S("b")>>)
        /\ Keys(Props(GetKey(Out, "properties"), cout.h)) = <<"b">>

\* the node's only key pattern, compiled
OnlyPattern == parse(cnode.patterns[1][1], ExistingComponents(schemas), FALSE, Literals)

\* C22: an object node with no explicit children and a key pattern has the compiled
\* schema of that pattern as additionalProperties, whatever that schema is; an object
\* node with explicit children or without key pattern has additionalProperties false,
\* or no additionalProperties field when its unknown flag is true.
C22_AdditionalProperties ==
  (pc = "compiled" /\ PlainObject /\ cout.kind = "ok")
    => /\ (cnode.keys = <<>> /\ Len(cnode.patterns) = 1 /\ OnlyPattern.kind = "ok")
            => /\ HasKey(Out, "additionalProperties")
               /\ GetKey(Out, "additionalProperties") = OnlyPattern.swagger
       /\ (cnode.keys # <<>> \/ cnode.patterns = <<>>)
            => IF cnode.unknown THEN ~HasKey(Out, "additionalProperties")
               ELSE /\ HasKey(Out, "additionalProperties")
                    /\ GetKey(Out, "additionalProperties") = B(FALSE)

\* a node of the given type that carries no metadata and no when clause: its compiled
\* schema is what the extractor of the type returned
Plain(type) ==
  /\ cnode.type = type /\ cnode.baseType = ""
  /\ cnode.className = "" /\ cnode.swagger = <<>> /\ cnode.schemaOverride = <<>>
  /\ cnode.whens = <<>> /\ cnode.presence # "forbidden"
  /\ cnode.label = "" /\ cnode.description = ""

\* the schemas that the alternatives compile to, in order, without those compiling to
\* false
Survivors(alternatives) ==
  LET emitted == EmittedChildren([i \in 1..Len(alternatives) |-> Child("", alternatives[i])],
                                 ExistingComponents(schemas))
  IN [i \in 1..Len(emitted) |-> emitted[i].swagger]

RECURSIVE FirstOccurrences(_, _)
\* the first n elements of s without those deep-equal to an earlier element
FirstOccurrences(s, n) ==
  IF n = 0 THEN <<>>
  ELSE FirstOccurrences(s, n - 1)
       \o (IF \E j \in 1..(n - 1) : IsEqual(s[j], s[n], cout.h) THEN <<>> ELSE << s[n] >>)

\* C23: the items of a compiled array node are made of its item alternatives compiled in
\* order, without those compiling to false and without those deep-equal to an earlier
\* one: {} when none is left, the schema itself when one is left, {oneOf: [...]} when two
\* or more are left.
C23_ArrayItems ==
  (pc = "compiled" /\ Plain("array") /\ cout.kind = "ok")
    => LET s == Survivors(cnode.items)
           survivors == FirstOccurrences(s, Len(s))
       IN /\ HasKey(Out, "items")
          /\ GetKey(Out, "items")
               = IF Len(survivors) = 0 THEN O(<<>>)
                 ELSE IF Len(survivors) = 1 THEN survivors[1]
                 ELSE O(<< <<"oneOf", A(survivors)>> >>)

\* an array node with three item alternatives of which one was dropped as a duplicate or
\* as false, compiled to a oneOf of two
C23_Witness ==
  /\ pc = "compiled" /\ Plain("array") /\ cout.kind = "ok"
  /\ Len(cnode.items) = 3
  /\ Len(Survivors(cnode.items)) = 3
  /\ Len(Elems(GetKey(Props(GetKey(Out, "items"), cout.h), "oneOf"))) = 2

\* the branch is one that compiles to false
CompilesToFalse(branch) ==
  parse(branch, ExistingComponents(schemas), FALSE, Literals).kind = "false"

\* C24: an alternatives node never compiles to false: when it has no branch, or only
\* branches compiling to false, its schema is {}; otherwise its schema has the one key
\* <mode>Of, whose list is not empty, holds schemas only and no two deep-equal ones.
C24_AlternativesNeverFalse ==
  (pc = "compiled" /\ Plain("alternatives"))
    => LET branches == MatchBranches(cnode.matches)
           mode == (IF cnode.match # "" THEN cnode.match ELSE "any") \o "Of"
           list == Elems(GetKey(Out, mode))
       IN /\ cout.kind = "ok"
          /\ IF \A i \in 1..Len(branches) : CompilesToFalse(branches[i])
             THEN cout.swagger = O(<<>>)
             ELSE /\ Tag(cout.swagger) = "o"
                  /\ Keys(Out) = << mode >>
                  /\ Tag(GetKey(Out, mode)) = "a"
                  /\ Len(list) > 0
                  /\ \A i \in 1..Len(list) : Tag(list[i]) \in {"o", "p"}
                  /\ \A i, j \in 1..Len(list) :
                       i # j => ~IsEqual(list[i], list[j], cout.h)

\* an alternatives node with two branches, both compiling to false, compiled to {}
C24_Witness ==
  /\ pc = "compiled" /\ Plain("alternatives") /\ cout.kind = "ok"
  /\ Len(MatchBranches(cnode.matches)) = 2
  /\ \A i \in 1..2 : CompilesToFalse(MatchBranches(cnode.matches)[i])
  /\ cout.swagger = O(<<>>)

\* the bucket of a node with a className
Bucket(node) == IF node.classTarget # "" THEN node.classTarget ELSE "schemas"

\* the className of the node is in the components the caller passed
Known(node) ==
  Truthy(GetPath(ExistingComponents(schemas), Bucket(node), node.className))

\* the schema the node compiles to inline, that is, without its className
Inline(node) ==
  parse([node EXCEPT !.className = ""], ExistingComponents(schemas), FALSE, Literals).swagger

\* the node is compiled under its className: it has one, is not forbidden and is not
\* replaced by a schemaOverride
Classed(node) ==
  node.className # "" /\ node.presence # "forbidden" /\ node.schemaOverride = <<>>

\* the first child of the compiled object node with the className and bucket of child j
FirstOfClass(j) ==
  CHOOSE i \in 1..j :
    /\ Classed(cnode.keys[i].schema)
    /\ cnode.keys[i].schema.className = cnode.keys[j].schema.className
    /\ Bucket(cnode.keys[i].schema) = Bucket(cnode.keys[j].schema)
    /\ \A k \in 1..(i - 1) :
         ~(/\ Classed(cnode.keys[k].schema)
           /\ cnode.keys[k].schema.className = cnode.keys[j].schema.className
           /\ Bucket(cnode.keys[k].schema) = Bucket(cnode.keys[j].schema))

\* C25: a node with className C and bucket T that is not forbidden compiles to the
\* reference #/components/T/C; when C is not in the known components of T the returned
\* components hold T[C], the node's inline schema, and when it is they are empty.  In
\* an object node a child whose className an earlier child registered compiles to the
\* reference as a known one does: T[C] stays the earlier child's inline schema.
C25_ClassNameReference ==
  /\ (pc = "compiled" /\ Classed(cnode) /\ cout.kind # "throw")
       => /\ cout.kind = "ok"
          /\ cout.swagger = refDef(Bucket(cnode), cnode.className)
          /\ IF Known(cnode) THEN cout.components = <<>>
             ELSE IsEqual(GetPath(cout.components, Bucket(cnode), cnode.className),
                          Inline(cnode), cout.h)
  /\ (pc = "compiled" /\ PlainObject /\ cout.kind = "ok")
       => \A j \in 1..Len(cnode.keys) :
            LET child == cnode.keys[j].schema
            IN (Classed(child) /\ ~Known(child))
                 => /\ GetKey(Props(GetKey(Out, "properties"), cout.h), cnode.keys[j].key)
                         = refDef(Bucket(child), child.className)
                    /\ IsEqual(GetPath(cout.components, Bucket(child), child.className),
                               Inline(cnode.keys[FirstOfClass(j)].schema), cout.h)

\* the nodes of the compiled tree in the order parse meets them: the node, then its
\* children or else the rules of its key patterns, its items, the branches of its
\* matches and the branches of its when clauses
Encountered ==
  << cnode >>
    \o [i \in 1..Len(cnode.keys) |-> cnode.keys[i].schema]
    \o (IF cnode.keys = <<>>
        THEN [i \in 1..Len(cnode.patterns) |-> cnode.patterns[i][1]] ELSE <<>>)
    \o cnode.items
    \o MatchBranches(cnode.matches)
    \o WhenBranches(cnode.whens)

\* the nodes met that are compiled under the className name in the bucket
OfClass(bucket, name) ==
  {i \in 1..Len(Encountered) :
     /\ Classed(Encountered[i])
     /\ Encountered[i].className = name
     /\ Bucket(Encountered[i]) = bucket}

\* C30: every definition in the components one compile returns is the inline schema of
\* the first node met with that className and bucket: no later node with the same
\* className replaces it or is merged into it.
C30_FirstDefinitionKept ==
  (pc = "compiled" /\ cout.kind = "ok" /\ cnode.schemaOverride = <<>>)
    => \A b \in 1..Len(cout.components) :
         LET bucket == cout.components[b][1]
             defs == Props(cout.components[b][2], cout.h)
         IN \A d \in 1..Len(defs) :
              LET nodes == OfClass(bucket, defs[d][1])
                  first == CHOOSE i \in nodes : \A k \in nodes : i <= k
              IN /\ nodes # {}
                 /\ IsEqual(defs[d][2], Inline(Encountered[first]), cout.h)

\* the nodes directly inside a node: its children, the rules of its key patterns, its
\* items and the branches of its matches and when clauses
Inside(node) ==
  [i \in 1..Len(node.keys) |-> node.keys[i].schema]
    \o [i \in 1..Len(node.patterns) |-> node.patterns[i][1]]
    \o node.items \o MatchBranches(node.matches) \o WhenBranches(node.whens)

RECURSIVE DeclaresOverride(_)
\* the node, or a node nested inside it, has a schemaOverride
DeclaresOverride(node) ==
  \/ node.schemaOverride # <<>>
  \/ \E i \in 1..Len(Inside(node)) : DeclaresOverride(Inside(node)[i])

\* what compiling the override node of the compiled node by itself gives
OverrideCompiled ==
  parse(cnode.schemaOverride[1], ExistingComponents(schemas), FALSE, Literals)

NestedOverrideError ==
  "Cannot override the schema for one which is being used in another override (no nested schema overrides)."

\* C26 (as amended): a node with a schemaOverride compiles as its override node does by
\* itself, whatever fields the node has; the nested-override error is raised when the
\* override node itself has a schemaOverride, and only then: a schemaOverride on a
\* node nested inside the override node is compiled in that node's place.
C26_OverrideOfOverride ==
  (pc = "compiled" /\ cnode.schemaOverride # <<>>)
    => IF cnode.schemaOverride[1].schemaOverride # <<>>
       THEN cout.kind = "throw" /\ cout.err = NestedOverrideError
       ELSE /\ cout.kind # "throw"
            /\ cout.kind = OverrideCompiled.kind
            /\ cout.swagger = OverrideCompiled.swagger
            /\ cout.components = OverrideCompiled.components

\* a node whose override node has a schemaOverride itself, compiled: the error
C26_Witness ==
  /\ pc = "compiled" /\ cnode.schemaOverride # <<>>
  /\ cnode.schemaOverride[1].schemaOverride # <<>>
  /\ cout.kind = "throw"

\* C26 as stated: a node with a schemaOverride compiles as its override node; when the
\* override node or any node nested inside it has a schemaOverride, the compile raises
\* the nested-override error.
C26_NestedOverrideAnywhere ==
  (pc = "compiled" /\ cnode.schemaOverride # <<>>)
    => IF DeclaresOverride(cnode.schemaOverride[1])
       THEN cout.kind = "throw" /\ cout.err = NestedOverrideError
       ELSE /\ cout.kind = OverrideCompiled.kind
            /\ cout.swagger = OverrideCompiled.swagger

\* the branches of the node's when clauses that are not forbidden, in order
LiveBranches == SelectSeq(WhenBranches(cnode.whens), LAMBDA b : b.presence # "forbidden")

\* what a branch is expected to be in the combinator's list: its compiled schema, with
\* x-required: true when the branch's own presence is required
BranchSchema(b, h) ==
  With(parse(b, <<>>, FALSE, h), LAMBDA r :
    O(IF b.presence = "required"
      THEN SetKey(Props(r.swagger, r.h), "x-required", B(TRUE))
      ELSE Props(r.swagger, r.h)))

\* the list under the combinator key of the compiled schema
Combined(mode) == Elems(GetKey(Out, mode))

\* the first branch that the element e of the list was compiled from
FirstBranch(e) ==
  CHOOSE i \in 1..Len(LiveBranches) :
    /\ IsEqual(e, BranchSchema(LiveBranches[i], cout.h), cout.h)
    /\ \A j \in 1..(i - 1) : ~IsEqual(e, BranchSchema(LiveBranches[j], cout.h), cout.h)

C16_UnrecognizedUnlessEndedEarlier ==
  (pc = "compiled" /\ cnode.type \notin RecognizedTypes)
    => IF cnode.schemaOverride # <<>>
       THEN cout = parse(cnode.schemaOverride[1], ExistingComponents(schemas), TRUE, Literals)
       ELSE IF cnode.swagger # <<>> /\ cnode.swaggerOverride
       THEN cout.kind = "ok" /\ cout.swagger = P(cnode.swagger[1])
       ELSE IF cnode.className # "" /\ HasKey(schemas, cnode.className)
       THEN cout.kind = "ok" /\ cout.swagger = refDef("schemas", cnode.className)
       ELSE IF cnode.presence = "forbidden"
       THEN cout.kind = "false"
       ELSE cout.kind = "throw" /\ cout.err = cnode.type \o " " \o ErrUnrecognized

\* a symbol node with a class name that is not yet known was refused
C16_Witness ==
  /\ pc = "compiled" /\ cnode.type = "symbol"
  /\ cnode.className = "C" /\ schemas = <<>>
  /\ cout.kind = "throw" /\ cout.err = "symbol is not a recognized Joi type."

\* C16 as stated: compiling a node whose type has no extractor raises the
\* unrecognized-type error, whatever metadata or presence the node carries: it never
\* returns a schema, a $ref or false.
C16_UnrecognizedThrows ==
  (pc = "compiled" /\ cnode.type \notin RecognizedTypes)
    => (cout.kind = "throw" /\ cout.err = cnode.type \o " " \o ErrUnrecognized)

\* C20: the compiled schema of a node has a default field exactly when the node's
\* default is a value that is no function - false and 0 included -, and the field's
\* value is that default.
C20_DefaultEmitted ==
  (pc = "compiled" /\ cout.kind = "ok" /\ cnode.type \in RecognizedTypes
     /\ cnode.swagger = <<>> /\ cnode.className = "" /\ cnode.schemaOverride = <<>>)
    => /\ HasKey(Out, "default") <=> Tag(cnode.default) \notin {"undef", "fn"}
       /\ HasKey(Out, "default") => GetKey(Out, "default") = cnode.default

\* C9: a string node with an email rule and a pattern rule compiles to format email
\* and no pattern; no compiled string schema has both a format and a pattern.
C9_FormatExcludesPattern ==
  (pc = "compiled" /\ cnode.type = "string")
    => /\ ~(HasKey(Out, "format") /\ HasKey(Out, "pattern"))
       /\ (HasRule(cnode, "email") /\ HasRule(cnode, "pattern"))
            => (GetKey(Out, "format") = S("email") /\ ~HasKey(Out, "pattern"))

\* C10: a number node compiles to type integer without format iff it has an integer
\* rule, else to type number with format double iff it has a precision rule and float
\* if not; minimum is the min rule's limit if there is one (0 for a reference the node
\* has no value for), else 1 under sign positive;
\* maximum is the max rule's limit if there is one, else -1 under sign negative; and
\* the rules [positive, integer] compile to {type: integer, minimum: 1}.
C10_NumberSchema ==
  (pc = "compiled" /\ cnode.type = "number")
    => /\ cout.kind = "ok"
       /\ HasRule(cnode, "integer")
            <=> (GetKey(Out, "type") = S("integer") /\ ~HasKey(Out, "format"))
       /\ ~HasRule(cnode, "integer")
            => /\ GetKey(Out, "type") = S("number")
               /\ GetKey(Out, "format")
                    = S(IF HasRule(cnode, "precision") THEN "double" ELSE "float")
       /\ HasRule(cnode, "min")
            => GetKey(Out, "minimum") = IF isRef(FindRule(cnode, "min").arg) THEN N(0)
                                        ELSE FindRule(cnode, "min").arg
       /\ HasRule(cnode, "max") => GetKey(Out, "maximum") = FindRule(cnode, "max").arg
       /\ (~HasRule(cnode, "min") /\ HasRule(cnode, "sign")
             /\ FindRule(cnode, "sign").arg = S("positive"))
            => GetKey(Out, "minimum") = N(1)
       /\ (~HasRule(cnode, "max") /\ HasRule(cnode, "sign")
             /\ FindRule(cnode, "sign").arg = S("negative"))
            => GetKey(Out, "maximum") = N(-1)
       /\ cnode.rules = << Rule("sign", S("positive")), Rule("integer", Undef) >>
            => ShapeOf(cout) = "{\"type\":\"integer\",\"minimum\":1}"

\* a number node with a sign rule and, after it, a min rule was compiled
C10_Witness ==
  /\ pc = "compiled" /\ cnode.type = "number"
  /\ Len(cnode.rules) = 3
  /\ cnode.rules[1] = Rule("sign", S("positive"))
  /\ cnode.rules[2] = Rule("min", N(5))
  /\ cnode.rules[3] = Rule("integer", Undef)
  /\ ShapeOf(cout) = "{\"type\":\"integer\",\"minimum\":5}"

(***************************************************************************)
(* Properties of the request validation                                     *)
(***************************************************************************)
\* the route declares a body with a content map and the request has a body
BodyWithContentMap ==
  routeSchema.body # <<>> /\ routeSchema.body[1].content # <<>> /\ req.body # <<>>

\* the media type of the request: the content-type header up to the first ';'
MediaType ==
  IF req.headers[1].contentType = <<>> THEN "undefined"
  ELSE Head(req.headers[1].contentType)

\* the content map has a schema for the request's media type
MediaTypeDeclared == HasKey(routeSchema.body[1].content[1], MediaType)

\* the container is declared by the route and present in the request
Validated(c) == routeSchema[c] # <<>> /\ req[c] # <<>>

\* the validation of the container lets the middleware go on to the next one
Passes(c) ==
  Validated(c)
    => IF c = "body"
       THEN IF routeSchema.body[1].content # <<>>
            THEN MediaTypeDeclared /\ req.body[1].ok
            ELSE routeSchema.body[1].validate # <<>> /\ req.body[1].ok
       ELSE req[c][1].ok

\* the middleware gets as far as validating the i-th container
Reaches(i) == \A j \in 1..(i - 1) : Passes(containers[j][1])

\* the middleware answered with the status and did not call next
Answered(status) == res # <<>> /\ res.status = status /\ nextCalls = <<>>

\* C17 (as amended): for a route whose body declares a content map and a request with
\* a body, provided the query container (validated before the body) is not declared,
\* is absent or is valid: a media type without schema in the map is answered 415
\* without calling next, a body the schema rejects is answered 422 without calling
\* next, and a body the schema accepts is replaced by the validated value.  For query,
\* headers, params and fields, a validation that is reached and fails is answered 422
\* without calling next.
C17_BodyAfterQuery ==
  pc = "handled"
    => /\ (BodyWithContentMap /\ Passes("query"))
            => /\ ~MediaTypeDeclared
                    => /\ Answered(415)
                       /\ GetKey(Props(res.json, <<>>), "error")
                            = S("Unsupported content type: " \o MediaType)
               /\ (MediaTypeDeclared /\ ~req.body[1].ok) => Answered(422)
               /\ (MediaTypeDeclared /\ req.body[1].ok) => req.body[1].validated
       /\ \A i \in {1, 3, 4, 5} :
            (Validated(containers[i][1]) /\ Reaches(i) /\ ~req[containers[i][1]][1].ok)
              => Answered(422)

\* C17 as stated: for a route whose body declares a content map and a request with a
\* body, a media type without schema is answered 415 without calling next, a rejected
\* body 422 without calling next, and an accepted body is replaced by the validated
\* value; for the other containers a validation failure is answered 422.
C17_UnsupportedOrInvalid ==
  pc = "handled"
    => /\ BodyWithContentMap
            => /\ ~MediaTypeDeclared => Answered(415)
               /\ (MediaTypeDeclared /\ ~req.body[1].ok) => Answered(422)
               /\ (MediaTypeDeclared /\ req.body[1].ok) => req.body[1].validated
       /\ \A i \in {1, 3, 4, 5} :
            (Validated(containers[i][1]) /\ Reaches(i) /\ ~req[containers[i][1]][1].ok)
              => Answered(422)

\* a request with a valid query and an unsupported media type was answered 415, with
\* the request id of its header
C17_Witness ==
  /\ pc = "handled" /\ BodyWithContentMap
  /\ Validated("query") /\ req.query[1].validated
  /\ MediaType = "text/plain"
  /\ Answered(415)
  /\ GetKey(Props(res.json, <<>>), "requestID") = S("r-1")

\* C27: every invocation of the middleware ends in exactly one of two ways: one error
\* response of status 422 or 415 was sent and next was not called, or no response was
\* sent and next was called exactly once.
C27_RespondsOrCallsNext ==
  pc = "handled"
    => \/ res # <<>> /\ res.status \in {415, 422} /\ nextCalls = <<>>
       \/ res = <<>> /\ Len(nextCalls) = 1

\* a request with a valid query and an invalid body was answered 422, next not called
C27_Witness ==
  /\ pc = "handled" /\ BodyWithContentMap /\ MediaTypeDeclared
  /\ Validated("query") /\ req.query[1].validated
  /\ ~req.body[1].ok
  /\ res # <<>> /\ res.status = 422 /\ nextCalls = <<>>

\* the order in which the containers are checked
CheckOrder == <<"query", "body", "headers", "params", "fields">>

\* the body declaration has neither a content map nor a validate method, and the request
\* has a body: validating it throws
BodyThrows ==
  /\ Validated("body")
  /\ routeSchema.body[1].content = <<>> /\ routeSchema.body[1].validate = <<>>

\* the container is declared and present and its value is not accepted: Joi rejects it
\* or, for a body with a content map, the media type has no schema
Fails(c) ==
  /\ Validated(c)
  /\ ~(c = "body" /\ BodyThrows)
  /\ IF c = "body" /\ routeSchema.body[1].content # <<>>
     THEN ~(MediaTypeDeclared /\ req.body[1].ok)
     ELSE ~req[c][1].ok

\* no container checked before the i-th fails
NoneFailsBefore(i) == \A j \in 1..(i - 1) : ~Fails(CheckOrder[j])

\* the i-th container is checked: no earlier one fails or throws
Checked(i) ==
  /\ Validated(CheckOrder[i])
  /\ NoneFailsBefore(i)
  /\ BodyThrows => i <= 2

\* C28: the containers are checked in the order query, body, headers, params, fields,
\* those without schema or without value being skipped.  At the first container that
\* fails the middleware responds and stops: the containers checked before it are
\* replaced by their validated values, the failing one and the later ones are not
\* validated and stay as they were.  (A body whose declaration has neither content map
\* nor validate method fails no validation: the middleware stops there without a
\* response and hands the TypeError to next.)
C28_FirstFailureStops ==
  pc = "handled"
    => /\ \A i \in 1..5 :
            req[CheckOrder[i]] # <<>>
              => (req[CheckOrder[i]][1].validated
                    <=> /\ Checked(i) /\ ~Fails(CheckOrder[i])
                        /\ ~(i = 2 /\ BodyThrows))
       /\ (req.body # <<>> /\ req.body[1].file) => Checked(2)
       /\ res # <<>> <=> \E i \in 1..5 : Checked(i) /\ Fails(CheckOrder[i])
       /\ (BodyThrows /\ NoneFailsBefore(2))
            => /\ res = <<>>
               /\ nextCalls = << << "TypeError: schema[container].validate is not a function" >> >>

\* a request whose query and body were replaced by their validated values and whose
\* headers failed: answered 422, params left as they were
C28_Witness ==
  /\ pc = "handled"
  /\ Validated("query") /\ req.query[1].validated
  /\ Validated("body") /\ req.body[1].validated
  /\ Fails("headers")
  /\ Validated("params") /\ ~req.params[1].validated
  /\ res # <<>> /\ res.status = 422

(***************************************************************************)
(* Properties of the assembled paths                                        *)
(***************************************************************************)
\* the entry of components.parameters under refName
ParameterEntry(refName) == Props(GetKey(parameters, refName), heap)

RECURSIVE RefsIn(_, _)
\* the targets of the $ref entries anywhere inside a value
RefsIn(v, h) ==
  CASE IsObj(v) ->
         UNION {IF Props(v, h)[i][1] = "$ref" /\ Tag(Props(v, h)[i][2]) = "s"
                THEN {Props(v, h)[i][2][2]}
                ELSE RefsIn(Props(v, h)[i][2], h) : i \in 1..Len(Props(v, h))}
    [] Tag(v) = "a" -> UNION {RefsIn(v[2][i], h) : i \in 1..Len(v[2])}
    [] OTHER -> {}

\* the $ref targets in the request bodies and responses of the document's operations
BodyRefs ==
  UNION {UNION {RefsIn(GetKey(Props(Props(doc[i][2], heap)[j][2], heap), part), heap) :
                  part \in {"requestBody", "responses"}} :
           i \in 1..Len(doc), j \in {1}}

\* C13: in the document a build returns, every reference #/components/schemas/<name>,
\* in a request body, in a response or inside a definition of components.schemas,
\* names a key of components.schemas.
C13_ReferencesResolve ==
  pc = "done"
    => \A r \in BodyRefs \cup RefsIn(O(schemas), heap) :
         r \in {"#/components/schemas/" \o k : k \in KeySet(schemas)}

\* the operation the document has at a path and method, undefined if none
Operation(path, method) == GetKey(Props(GetKey(doc, path), <<>>), method)

\* C8: every route of RouteSchema.paths, at every path and every method under it, has an
\* entry in the document's paths with its tags, summary, parameters and responses.
C8_EveryRouteEmitted ==
  pc = "done"
    => \A i \in 1..Len(RoutePaths(klass)) :
         \A j \in 1..Len(RoutePaths(klass)[i][2]) :
           LET route == RoutePaths(klass)[i][2][j][2]
               op == Props(Operation(route.path, route.method), <<>>)
           IN /\ GetKey(op, "summary") = S(route.summary)
              /\ GetKey(op, "tags") = A([t \in 1..Len(route.tags) |-> S(route.tags[t])])
              /\ HasKey(op, "parameters")
              /\ HasKey(op, "responses")

\* the entries of an optional map: none when the map is absent
Entries(opt) == IF opt = <<>> THEN <<>> ELSE opt[1]

\* the content emitted for declared content entries: one entry per MIME type, each a
\* $ref to the name the resolver bound the entry's schema to
ContentAsDeclared(content, declaredContent) ==
  /\ Keys(content) = Keys(Entries(declaredContent))
  /\ \A m \in 1..Len(Entries(declaredContent)) :
       /\ Entries(declaredContent)[m][2] \in DOMAIN schemaMap
       /\ GetKey(Props(content[m][2], <<>>), "schema")
            = refDef("schemas", schemaMap[Entries(declaredContent)[m][2]])

\* the operation emitted for a route has the route's responses and request body
RouteAsDeclared(route) ==
  LET op == Props(Operation(route.path, route.method), <<>>)
      responses == Props(GetKey(op, "responses"), <<>>)
  IN /\ Keys(responses) = Keys(Entries(route.responses))
     /\ \A k \in 1..Len(Entries(route.responses)) :
          /\ GetKey(Props(responses[k][2], <<>>), "description")
               = Entries(route.responses)[k][2].description
          /\ HasKey(Props(responses[k][2], <<>>), "content")
          /\ ContentAsDeclared(Props(GetKey(Props(responses[k][2], <<>>), "content"), <<>>),
                               Entries(route.responses)[k][2].content)
     /\ HasKey(op, "requestBody") <=> (route.body # <<>> /\ route.body[1].content # <<>>)
     /\ HasKey(op, "requestBody")
          => ContentAsDeclared(
               Props(GetKey(Props(GetKey(op, "requestBody"), <<>>), "content"), <<>>),
               route.body[1].content)

\* C15: for every route of the document a build returns, each declared status code is
\* a key of the emitted responses with the declared description and one $ref per
\* declared MIME type to the name the resolver returned, a response without content or
\* with an empty content map has content {}, and requestBody is emitted iff the route
\* declares a body with a content map.
C15_ResponsesAndBody ==
  pc = "done"
    => \A i \in 1..Len(RoutePaths(klass)) :
         \A j \in 1..Len(RoutePaths(klass)[i][2]) :
           RouteAsDeclared(RoutePaths(klass)[i][2][j][2])

\* the name a key of a headers or query node is referenced by: the declared name of the
\* parameter whose property it is, the key itself when there is none
ReferencedAs(k) ==
  IF \E i \in 1..Len(parameters) : GetKey(Props(parameters[i][2], <<>>), "name") = S(k)
  THEN parameters[CHOOSE i \in 1..Len(parameters) :
                    GetKey(Props(parameters[i][2], <<>>), "name") = S(k)][1]
  ELSE k

\* the parameters list emitted for a route is one $ref per key of its headers node, then
\* one per key of its query node
ParametersAsDeclared(route) ==
  LET ks == DescribedKeys(route.headers) \o DescribedKeys(route.query)
  IN GetKey(Props(Operation(route.path, route.method), <<>>), "parameters")
       = A([x \in 1..Len(ks) |->
              O(<< <<"$ref", S("#/components/parameters/" \o ReferencedAs(ks[x]))>> >>)])

\* C19: for every route of the document a build returns, the parameters list is one
\* $ref per key of the headers node followed by one per key of the query node, in key
\* order, to the declared name of the parameter with that property name, or to the raw
\* key when no declared parameter has it.
C19_ParametersList ==
  pc = "done"
    => \A i \in 1..Len(RoutePaths(klass)) :
         \A j \in 1..Len(RoutePaths(klass)[i][2]) :
           ParametersAsDeclared(RoutePaths(klass)[i][2][j][2])

\* the keys of an optional object node whose child is forbidden
ForbiddenKeys(part) ==
  IF part = <<>> THEN {}
  ELSE {part[1].keys[k].key :
          k \in {k \in 1..Len(part[1].keys) :
                   part[1].keys[k].schema.presence = "forbidden"}}

\* C7, for the parameters: no forbidden key of a route's headers or query node is in
\* the parameters list the document has for the route.
C7_ForbiddenParameterAbsent ==
  pc = "done"
    => \A i \in 1..Len(RoutePaths(klass)) :
         LET route == RoutePaths(klass)[i][2][1][2]
             refs == Elems(GetKey(Props(Operation(route.path, route.method), <<>>),
                                  "parameters"))
         IN \A k \in ForbiddenKeys(route.headers) \cup ForbiddenKeys(route.query) :
              \A x \in 1..Len(refs) :
                refs[x] # ParameterRefs(<<k>>, paramNameToRefName(parameters))[1]

=============================================================================
